---- MODULE Spec2Model ----
(***************************************************************************)
(* Model of the data-catalog search tool                                   *)
(* (api/libs/agents/src/tools/categories/file_tools/search_data_catalog.rs)*)
(* SearchDataCatalogTool::execute and the helpers it calls: the term       *)
(* filter, the embedding batch, the value search, the rerank and LLM       *)
(* filter fan-out, the result merge and the YAML value injection.          *)
(***************************************************************************)
EXTENDS Integers, Sequences, FiniteSets, TLC

VARIABLES
    pc,                        \* position of execute
    params,                    \* SearchDataCatalogParams
    ret,                       \* what execute returned: "none", "ok" or "err"
    output,                    \* SearchDataCatalogOutput once ret = "ok"
    agent_state,               \* Agent state written with set_state_value
    fetch_result,              \* how the spawned fetch task ended
    all_datasets,              \* datasets kept by get_datasets
    syntax_task,               \* the spawned data source syntax task
    value_search_terms,        \* params.value_search_terms.unwrap_or_default()
    valid_value_search_terms,  \* terms kept by the term filter
    term_embeddings,           \* (term, embedding) pairs of the batch
    value_search_tasks,        \* one spawned search per embedded term
    all_found_values,          \* flattened FoundValueInfo list
    documents,                 \* yml_content of all_datasets
    rerank_errors,             \* Arc<Mutex<Vec<String>>> contents
    rr,                        \* rerank streams: per group next, inflight, out
    fl,                        \* filter streams: per group next, inflight, out
    combined_results,          \* merged DatasetResult list
    updated_results,           \* results after value injection
    calls,                     \* external calls made so far, per collaborator
    merge_input,               \* occurrences of each dataset in the merged vectors
    embedding_result,          \* how the spawned embedding batch task ended
    call                       \* one function applied on its own: arguments and result

vars == <<pc, params, ret, output, agent_state, fetch_result, all_datasets,
          syntax_task, value_search_terms, valid_value_search_terms,
          term_embeddings, value_search_tasks, all_found_values, documents,
          rerank_errors, rr, fl, combined_results,
          updated_results, calls, merge_input, embedding_result, call>>

----------------------------------------------------------------------------
(* Generic helpers                                                         *)

Range(s) == {s[i] : i \in 1..Len(s)}

SeqsUpTo(S, n) == UNION {[1..k -> S] : k \in 0..n}

RECURSIVE FilterSeq(_, _)
FilterSeq(s, keep) ==
    IF s = <<>> THEN <<>>
    ELSE IF keep[Head(s)] THEN <<Head(s)>> \o FilterSeq(Tail(s), keep)
         ELSE FilterSeq(Tail(s), keep)

RECURSIVE Flatten(_)
Flatten(ss) == IF ss = <<>> THEN <<>> ELSE Head(ss) \o Flatten(Tail(ss))

IsInjective(s) == \A i, j \in 1..Len(s) : s[i] = s[j] => i = j

\* Option<T>: None, or Some(v)
None == [some |-> FALSE]
Some(v) == [some |-> TRUE, v |-> v]
UnwrapOrDefault(o) == IF o.some THEN o.v ELSE <<>>

----------------------------------------------------------------------------
(* A term is a sequence of characters; a character is named by a string    *)

\* characters whose UTF-8 encoding takes two bytes ("e_acute" stands for U+00E9)
TwoByteChars == {"e_acute"}

\* str::len of one character: its UTF-8 length in bytes
Utf8Len(c) == IF c \in TwoByteChars THEN 2 ELSE 1

RECURSIVE ByteLen(_)
ByteLen(term) == IF term = <<>> THEN 0 ELSE Utf8Len(Head(term)) + ByteLen(Tail(term))

CharLen(term) == Len(term)

UpperToLower ==
    [c \in {"A","B","C","D","E","F","G","H","I","J","K","L","M",
            "N","O","P","Q","R","S","T","U","V","W","X","Y","Z"} |->
        CASE c = "A" -> "a" [] c = "B" -> "b" [] c = "C" -> "c" [] c = "D" -> "d"
          [] c = "E" -> "e" [] c = "F" -> "f" [] c = "G" -> "g" [] c = "H" -> "h"
          [] c = "I" -> "i" [] c = "J" -> "j" [] c = "K" -> "k" [] c = "L" -> "l"
          [] c = "M" -> "m" [] c = "N" -> "n" [] c = "O" -> "o" [] c = "P" -> "p"
          [] c = "Q" -> "q" [] c = "R" -> "r" [] c = "S" -> "s" [] c = "T" -> "t"
          [] c = "U" -> "u" [] c = "V" -> "v" [] c = "W" -> "w" [] c = "X" -> "x"
          [] c = "Y" -> "y" [] c = "Z" -> "z"]

to_lowercase(term) ==
    [i \in 1..Len(term) |->
        IF term[i] \in DOMAIN UpperToLower THEN UpperToLower[term[i]] ELSE term[i]]

\* str::contains: t occurs in s as a contiguous substring
contains(s, t) ==
    \E i \in 1..(Len(s) - Len(t) + 1) : SubSeq(s, i, i + Len(t) - 1) = t

time_terms == {
    <<"t", "o", "d", "a", "y">>,
    <<"y", "e", "s", "t", "e", "r", "d", "a", "y">>,
    <<"t", "o", "m", "o", "r", "r", "o", "w">>,
    <<"l", "a", "s", "t", " ", "w", "e", "e", "k">>,
    <<"l", "a", "s", "t", " ", "m", "o", "n", "t", "h">>,
    <<"l", "a", "s", "t", " ", "y", "e", "a", "r">>,
    <<"l", "a", "s", "t", " ", "q", "u", "a", "r", "t", "e", "r">>,
    <<"t", "h", "i", "s", " ", "w", "e", "e", "k">>,
    <<"t", "h", "i", "s", " ", "m", "o", "n", "t", "h">>,
    <<"t", "h", "i", "s", " ", "y", "e", "a", "r">>,
    <<"t", "h", "i", "s", " ", "q", "u", "a", "r", "t", "e", "r">>,
    <<"n", "e", "x", "t", " ", "w", "e", "e", "k">>,
    <<"n", "e", "x", "t", " ", "m", "o", "n", "t", "h">>,
    <<"n", "e", "x", "t", " ", "y", "e", "a", "r">>,
    <<"n", "e", "x", "t", " ", "q", "u", "a", "r", "t", "e", "r">>,
    <<"q", "1">>,
    <<"q", "2">>,
    <<"q", "3">>,
    <<"q", "4">>,
    <<"j", "a", "n", "u", "a", "r", "y">>,
    <<"f", "e", "b", "r", "u", "a", "r", "y">>,
    <<"m", "a", "r", "c", "h">>,
    <<"a", "p", "r", "i", "l">>,
    <<"m", "a", "y">>,
    <<"j", "u", "n", "e">>,
    <<"j", "u", "l", "y">>,
    <<"a", "u", "g", "u", "s", "t">>,
    <<"s", "e", "p", "t", "e", "m", "b", "e", "r">>,
    <<"o", "c", "t", "o", "b", "e", "r">>,
    <<"n", "o", "v", "e", "m", "b", "e", "r">>,
    <<"d", "e", "c", "e", "m", "b", "e", "r">>,
    <<"j", "a", "n">>,
    <<"f", "e", "b">>,
    <<"m", "a", "r">>,
    <<"a", "p", "r">>,
    <<"j", "u", "n">>,
    <<"j", "u", "l">>,
    <<"a", "u", "g">>,
    <<"s", "e", "p">>,
    <<"o", "c", "t">>,
    <<"n", "o", "v">>,
    <<"d", "e", "c">>
}

is_time_period_term(term) ==
    LET term_lower == to_lowercase(term)
    IN  \E t \in time_terms : contains(term_lower, t)

TermKept(term) == ByteLen(term) >= 2 /\ ~is_time_period_term(term)

TermFilter(terms) ==
    FilterSeq(terms, [t \in Range(terms) |-> TermKept(t)])

----------------------------------------------------------------------------
(* Semantic documents (yml_content) and found values                       *)

\* an absent string field of a YAML node (as_str() gives None)
NoStr == "~"

\* a dimension node; relevant_values is absent or a sequence of value strings
Dim(name, searchable, present, vals) ==
    [name |-> name, searchable |-> searchable,
     relevant_values |-> [present |-> present, vals |-> vals]]

Model(name, database, schema, dimensions) ==
    [name |-> name, database |-> database, schema |-> schema,
     dimensions |-> dimensions]

\* a yml text: valid says whether serde_yaml::from_str parses it; fmt is
\* "source" for the text as stored and "serde" for serde_yaml::to_string output
Yml(fmt, valid, models) == [fmt |-> fmt, valid |-> valid, models |-> models]

FoundValueInfo(value, db, schema, table, column) ==
    [value |-> value, database_name |-> db, schema_name |-> schema,
     table_name |-> table, column_name |-> column]

\* positions <<m, d>> of the dimension nodes of a parsed document
DimIndex(yml) ==
    UNION { { <<m, d>> : d \in 1..Len(yml.models[m].dimensions) } :
            m \in 1..Len(yml.models) }

\* extract_searchable_dimensions: (model_name, dimension_name) of every
\* dimension with searchable: true
extract_searchable_dimensions(yml) ==
    { <<IF yml.models[md[1]].name = NoStr THEN "unknown_model"
        ELSE yml.models[md[1]].name,
        IF yml.models[md[1]].dimensions[md[2]].name = NoStr THEN "unknown_dimension"
        ELSE yml.models[md[1]].dimensions[md[2]].name>> :
        md \in { x \in DimIndex(yml) :
                   yml.models[x[1]].dimensions[x[2]].searchable } }

\* extract_database_info_from_yaml: the (database, schema, table) entries of
\* the nested map; the column lists are never read by the caller
extract_database_info_from_yaml(yml) ==
    { <<IF yml.models[m].database = NoStr THEN "unknown" ELSE yml.models[m].database,
        IF yml.models[m].schema = NoStr THEN "public" ELSE yml.models[m].schema,
        IF yml.models[m].name = NoStr THEN "unknown_model" ELSE yml.models[m].name>> :
        m \in 1..Len(yml.models) }

\* the (database, schema) pairs of the nested map
DbSchemaPairs(database_info) == { <<e[1], e[2]>> : e \in database_info }

\* iteration orders of the nested HashMap: every arrangement of the pairs in
\* which the schemas of one database are adjacent
DbIterOrders(database_info) ==
    LET P == DbSchemaPairs(database_info)
        n == Cardinality(P)
    IN  { o \in [1..n -> P] :
            /\ \A i, j \in 1..n : o[i] = o[j] => i = j
            /\ \A i, j, k \in 1..n :
                 (i < j /\ j < k /\ o[i][1] = o[k][1]) => o[j][1] = o[i][1] }

\* iteration order of a HashSet<String> of values under a hasher seed: the
\* values in ascending order, rotated by the seed, reversed for odd seeds
RECURSIVE SortedSeq(_)
SortedSeq(S) ==
    IF S = {} THEN <<>>
    ELSE LET m == CHOOSE x \in S : \A y \in S : x <= y
         IN  <<m>> \o SortedSeq(S \ {m})

HashSetIter(S, seed) ==
    LET n == Cardinality(S)
        a == SortedSeq(S)
        r == (seed \div 2) % n
        rot == [i \in 1..n |-> a[((i - 1 + r) % n) + 1]]
    IN  IF n = 0 THEN <<>>
        ELSE IF seed % 2 = 0 THEN rot
        ELSE [i \in 1..n |-> rot[n + 1 - i]]

\* Iterator::take
Take(s, n) == SubSeq(s, 1, IF Len(s) < n THEN Len(s) ELSE n)

\* .take(20) at the value injection
MaxInjectedValues == 20

\* the values injected into one dimension without .take(20)
relevant_values_not_limited(all_found, db, schema, model_name, dim_name, seed) ==
    HashSetIter({ all_found[i].value :
                    i \in { i \in 1..Len(all_found) :
                              /\ all_found[i].database_name = db
                              /\ all_found[i].schema_name = schema
                              /\ all_found[i].table_name = model_name
                              /\ all_found[i].column_name = dim_name } }, seed)

\* lines 1349-1362: the values injected into one dimension
relevant_values_for_dim(all_found, db, schema, model_name, dim_name, seed) ==
    LET matching == { i \in 1..Len(all_found) :
                        /\ all_found[i].database_name = db
                        /\ all_found[i].schema_name = schema
                        /\ all_found[i].table_name = model_name
                        /\ all_found[i].column_name = dim_name }
        unique == { all_found[i].value : i \in matching }
    IN  Take(HashSetIter(unique, seed), MaxInjectedValues)

\* lines 1317-1326: the first (database, schema) in iteration order whose
\* table map has the model name
model_db_info(database_info, order, model_name) ==
    LET hits == { i \in 1..Len(order) : <<order[i][1], order[i][2], model_name>> \in database_info }
    IN  IF hits = {} THEN <<>>
        ELSE order[CHOOSE i \in hits : \A j \in hits : i <= j]

\* lines 1336-1378 for one dimension node
InjectDim(dim, searchable_dimensions, all_found, db_info, model_name, seed) ==
    IF dim.name = NoStr THEN dim
    ELSE IF <<model_name, dim.name>> \notin searchable_dimensions THEN dim
    ELSE LET vals == relevant_values_for_dim(all_found, db_info[1], db_info[2],
                                              model_name, dim.name, seed)
         IN  IF vals # <<>>
             THEN [dim EXCEPT !.relevant_values = [present |-> TRUE, vals |-> vals]]
             ELSE dim

\* lines 1309-1381 for one model node
InjectModel(model, searchable_dimensions, all_found, database_info, order, seed) ==
    IF model.name = NoStr THEN model
    ELSE LET info == model_db_info(database_info, order, model.name)
         IN  IF info = <<>> THEN model
             ELSE [model EXCEPT !.dimensions =
                     [d \in 1..Len(model.dimensions) |->
                        InjectDim(model.dimensions[d], searchable_dimensions,
                                  all_found, info, model.name, seed)]]

\* inject_prefound_values_into_yml: Err when the text does not parse, the text
\* itself when no dimension is searchable, else the re-serialized tree
inject_prefound_values_into_yml(yml_content, all_found, order, seed) ==
    IF ~yml_content.valid THEN [ok |-> FALSE, yml |-> yml_content]
    ELSE LET database_info == extract_database_info_from_yaml(yml_content)
             searchable_dimensions == extract_searchable_dimensions(yml_content)
         IN  IF searchable_dimensions = {} THEN [ok |-> TRUE, yml |-> yml_content]
             ELSE [ok |-> TRUE,
                   yml |-> Yml("serde", TRUE,
                       [m \in 1..Len(yml_content.models) |->
                          InjectModel(yml_content.models[m], searchable_dimensions,
                                      all_found, database_info, order, seed)])]

----------------------------------------------------------------------------
(* Bounds of the exploration and the inputs drawn within them              *)

MaxInputs == 2          \* queries, topics and terms of one invocation, together
MaxFoundPerTerm == 1    \* stored values one index search returns

\* .buffer_unordered(10) of the four streams
BufferCap == 10

Groups == {"specific", "exploratory"}

\* the datasets of the permission store
CatalogIds == {1, 2}
NumDatasets == Cardinality(CatalogIds)

\* a query or topic text is named by a number
QueryLists == { [i \in 1..k |-> i] : k \in 0..MaxInputs }
OptionOf(S) == {None} \cup { Some(v) : v \in S }

\* value search terms an invocation may carry: one the term filter keeps,
\* one it drops as a time period, one it drops as too short
PipelineTerms == { <<"r", "b">>, <<"q", "1">>, <<"x">> }

ParamsSet ==
    { p \in [specific_queries : OptionOf(QueryLists),
             exploratory_topics : OptionOf(QueryLists),
             value_search_terms : OptionOf(SeqsUpTo(PipelineTerms, MaxInputs))] :
        Len(UnwrapOrDefault(p.specific_queries))
          + Len(UnwrapOrDefault(p.exploratory_topics))
          + Len(UnwrapOrDefault(p.value_search_terms)) <= MaxInputs }

\* the stored documents of the catalog: dataset 1 describes the products
\* model with a searchable brand dimension, dataset 2 is not valid YAML,
\* every other dataset has no searchable dimension
CatalogYml(id) ==
    CASE id = 1 -> Yml("source", TRUE,
                       <<Model("products", "analytics", "public",
                               <<Dim("brand", TRUE, FALSE, <<>>),
                                 Dim("sku", FALSE, FALSE, <<>>)>>)>>)
      [] id = 2 -> Yml("source", FALSE, <<>>)
      [] OTHER  -> Yml("source", TRUE,
                       <<Model("orders", "analytics", "public",
                               <<Dim("status", FALSE, FALSE, <<>>)>>)>>)

NameOf(id) == 100 + id
SourceOf(id) == ((id - 1) % 2) + 1

PermissionedDataset(id, has_yml) ==
    [id |-> id, name |-> NameOf(id),
     yml_content |-> IF has_yml THEN Some(CatalogYml(id)) ELSE None,
     data_source_id |-> SourceOf(id)]

\* what get_permissioned_datasets can deliver: datasets 1..n, each with or
\* without a document
FetchLists ==
    UNION { { [i \in 1..n |-> PermissionedDataset(i, has[i])] :
              has \in [1..n -> BOOLEAN] } : n \in 0..NumDatasets }

\* what the value index can return for one term
IndexValues ==
    { FoundValueInfo(1, "analytics", "public", "products", "brand"),
      FoundValueInfo(2, "analytics", "public", "products", "sku") }
IndexLists == SeqsUpTo(IndexValues, MaxFoundPerTerm)

\* identity strings of an LLM response: the id of a dataset, an id no
\* dataset has, or text that is no UUID
HallucinatedId == NumDatasets + 1
IdString(parses, id) == [parses |-> parses, id |-> id]
IdStrings ==
    { IdString(TRUE, i) : i \in 1..(NumDatasets + 1) } \cup { IdString(FALSE, 0) }
LlmLists == SeqsUpTo(IdStrings, NumDatasets)

\* why llm_filter_helper can fail
LlmFailures == {"call_failed", "no_content", "bad_json"}

----------------------------------------------------------------------------
(* State of one invocation of execute                                      *)

\* values of the agent state: never written, Value::Null, or a value
Unset == [tag |-> "unset"]
Null == [tag |-> "null"]
Val(v) == [tag |-> "val", v |-> v]

NoOutput ==
    [message |-> [kind |-> "none", count |-> 0, warnings |-> <<>>],
     specific_queries |-> None, exploratory_topics |-> None,
     results |-> <<>>, data_source_id |-> None]

EmptyStream == [queue |-> <<>>, inflight |-> {}, out |-> <<>>]

NoCalls == [embed |-> 0, index |-> 0, rerank |-> 0, llm |-> 0]

\* execute has been called with params and has not taken a step
Called(p) ==
    /\ pc = "start"
    /\ params = p
    /\ ret = "none"
    /\ output = NoOutput
    /\ agent_state = [data_source_id |-> Unset, data_source_syntax |-> Unset,
                      data_context |-> Unset, searched_data_catalog |-> Unset]
    /\ fetch_result = [tag |-> "pending"]
    /\ all_datasets = <<>>
    /\ syntax_task = "not_spawned"
    /\ value_search_terms = <<>>
    /\ valid_value_search_terms = <<>>
    /\ term_embeddings = {}
    /\ value_search_tasks = {}
    /\ all_found_values = <<>>
    /\ documents = <<>>
    /\ rerank_errors = <<>>
    /\ rr = [g \in Groups |-> EmptyStream]
    /\ fl = [g \in Groups |-> EmptyStream]
    /\ combined_results = <<>>
    /\ updated_results = <<>>
    /\ calls = NoCalls
    /\ merge_input = [id \in CatalogIds |-> 0]
    /\ embedding_result = [tag |-> "pending"]

\* no function is applied on its own
NoCall == [fn |-> "none"]

Init ==
    /\ \E p \in ParamsSet : Called(p)
    /\ call = NoCall

\* an early output that carries the unwrapped lists: an absent list comes
\* back as an empty one
EarlyOutputUnwrapped(kind, data_source_id) ==
    [message |-> [kind |-> kind, count |-> 0, warnings |-> <<>>],
     specific_queries |-> Some(UnwrapOrDefault(params.specific_queries)),
     exploratory_topics |-> Some(UnwrapOrDefault(params.exploratory_topics)),
     results |-> <<>>, data_source_id |-> data_source_id]

\* the response of an early return
EarlyOutput(kind, data_source_id) ==
    [message |-> [kind |-> kind, count |-> 0, warnings |-> <<>>],
     specific_queries |-> params.specific_queries,
     exploratory_topics |-> params.exploratory_topics,
     results |-> <<>>, data_source_id |-> data_source_id]

----------------------------------------------------------------------------
(* Fetch, syntax task, term filter, embedding batch and value search       *)

\* get_datasets without the filter on yml_content
get_datasets_unfiltered(datasets) == datasets

\* get_datasets (Ok arm): keeps the datasets that carry a document
get_datasets(datasets) ==
    FilterSeq(datasets, [d \in Range(datasets) |-> d.yml_content.some])

\* the data source of the last dataset taken for every dataset
target_of_last_dataset == all_datasets[Len(all_datasets)].data_source_id

\* line 390: the data source of the first dataset, used for all of them
target_data_source_id == all_datasets[1].data_source_id

\* lines 407-416: the type of a data source, as the dialect string
DataSourceType(data_source_id) == [dialect_of |-> data_source_id]

\* line 358: the spawned fetch task did not join (it panicked); `?` hands
\* the JoinError to the caller
FetchJoinError ==
    /\ pc = "start"
    /\ fetch_result' = [tag |-> "panicked"]
    /\ ret' = "err"
    /\ pc' = "done"
    /\ UNCHANGED <<params, output, agent_state, all_datasets,
                   syntax_task, value_search_terms, valid_value_search_terms,
                   term_embeddings, value_search_tasks, all_found_values,
                   documents, rerank_errors, rr, fl,
                   combined_results, updated_results, calls, merge_input, embedding_result, call>>

\* lines 360-370: get_datasets returned Err
FetchError ==
    /\ pc = "start"
    /\ fetch_result' = [tag |-> "err"]
    /\ output' = EarlyOutput("fetch_error", None)
    /\ ret' = "ok"
    /\ pc' = "done"
    /\ UNCHANGED <<params, agent_state, all_datasets,
                   syntax_task, value_search_terms, valid_value_search_terms,
                   term_embeddings, value_search_tasks, all_found_values,
                   documents, rerank_errors, rr, fl,
                   combined_results, updated_results, calls, merge_input, embedding_result, call>>

\* lines 359 and 373-437: get_datasets returned Ok; an empty list returns
\* early, otherwise the data source id of the first dataset is cached and the
\* syntax task is spawned
FetchDatasets ==
    /\ pc = "start"
    /\ \E list \in FetchLists :
         /\ fetch_result' = [tag |-> "ok", datasets |-> list]
         /\ all_datasets' = get_datasets(list)
         /\ IF get_datasets(list) = <<>>
            THEN /\ agent_state' = [agent_state EXCEPT !.data_source_id = Null]
                 /\ output' = EarlyOutput("no_datasets", None)
                 /\ ret' = "ok"
                 /\ pc' = "done"
                 /\ UNCHANGED syntax_task
            ELSE /\ agent_state' = [agent_state EXCEPT !.data_source_id =
                                      Val(target_data_source_id')]
                 /\ syntax_task' = "running"
                 /\ pc' = "term_filter"
                 /\ UNCHANGED <<output, ret>>
    /\ UNCHANGED <<params, value_search_terms, valid_value_search_terms,
                   term_embeddings, value_search_tasks, all_found_values,
                   documents, rerank_errors, rr, fl,
                   combined_results, updated_results, calls, merge_input, embedding_result, call>>

\* lines 402-436: the spawned task looks the data source type up and writes
\* data_source_syntax; a task that panics writes nothing. The task shares
\* nothing with execute but that key, which execute never reads, so each of
\* its steps commutes with every step of execute: its end is explored only
\* where execute can observe it, at the join of line 765 and after a return
SyntaxTask ==
    /\ syntax_task = "running"
    /\ pc \in {"await_syntax", "done"}
    /\ \/ /\ syntax_task' = "finished"
          /\ agent_state' = [agent_state EXCEPT !.data_source_syntax =
                                    Val(DataSourceType(target_data_source_id))]
       \/ /\ syntax_task' = "finished"
          /\ agent_state' = [agent_state EXCEPT !.data_source_syntax = Null]
       \/ /\ syntax_task' = "panicked"
          /\ UNCHANGED agent_state
    /\ UNCHANGED <<pc, params, ret, output, fetch_result, all_datasets,
                   value_search_terms, valid_value_search_terms,
                   term_embeddings, value_search_tasks, all_found_values,
                   documents, rerank_errors, rr, fl,
                   combined_results, updated_results, calls, merge_input, embedding_result, call>>

\* lines 442-455: the term filter; with a kept term the embedding batch task
\* is spawned
TermFilterStep ==
    /\ pc = "term_filter"
    /\ value_search_terms' = UnwrapOrDefault(params.value_search_terms)
    /\ valid_value_search_terms' =
           TermFilter(UnwrapOrDefault(params.value_search_terms))
    /\ IF TermFilter(UnwrapOrDefault(params.value_search_terms)) # <<>>
       THEN /\ pc' = "embedding"
            /\ calls' = [calls EXCEPT !.embed = @ + 1]
       ELSE /\ pc' = "value_search"
            /\ UNCHANGED calls
    /\ UNCHANGED <<params, ret, output, agent_state, fetch_result, all_datasets,
                   syntax_task, term_embeddings, value_search_tasks,
                   all_found_values, documents, rerank_errors, 
                   rr, fl, combined_results, updated_results, merge_input,
                   embedding_result, call>>

\* generate_embeddings_batch giving up when the provider did not return
\* one embedding per text
generate_embeddings_batch_all_or_nothing(texts, data) ==
    IF Len(data) # Len(texts) THEN <<>>
    ELSE [i \in 1..Len(texts) |-> [term |-> texts[i], embedding |-> data[i]]]

\* generate_embeddings_batch (Ok arm), lines 1140-1158: the provider returned
\* the embeddings data; text i is paired with data.get(i), a text with no
\* embedding is left out
generate_embeddings_batch(texts, data) ==
    [i \in 1..(IF Len(data) < Len(texts) THEN Len(data) ELSE Len(texts)) |->
        [term |-> texts[i], embedding |-> data[i]]]

\* provider responses of k embeddings: vectors whose content is not told
\* apart, or vectors that are all empty
EmbeddingData(k) == { [i \in 1..k |-> "vec"], [i \in 1..k |-> "empty"] }

\* line 459: results.into_iter().collect() into a HashMap keyed by term
CollectEmbeddings(pairs) ==
    { pairs[i] : i \in { i \in 1..Len(pairs) :
                           \A j \in (i + 1)..Len(pairs) : pairs[j].term # pairs[i].term } }

\* an embedding batch whose Err is returned by execute
EmbeddingBatchFailureAborts ==
    /\ pc = "embedding"
    /\ \/ \E k \in 0..(Len(valid_value_search_terms) + 1) :
            /\ \E data \in EmbeddingData(k) :
                 term_embeddings' =
                   CollectEmbeddings(generate_embeddings_batch(valid_value_search_terms, data))
            /\ embedding_result' = [tag |-> "ok"]
            /\ pc' = "value_search"
            /\ ret' = ret
       \/ /\ term_embeddings' = {}
          /\ embedding_result' = [tag |-> "err"]
          /\ pc' = "done"
          /\ ret' = "err"
    /\ UNCHANGED <<params, output, agent_state, fetch_result, all_datasets,
                   syntax_task, value_search_terms, valid_value_search_terms,
                   value_search_tasks, all_found_values, documents,
                   rerank_errors, rr, fl, combined_results,
                   updated_results, calls, merge_input, call>>

\* lines 458-464: the batch returned Ok or Err
EmbeddingBatch ==
    /\ pc = "embedding"
    /\ \/ \E k \in 0..(Len(valid_value_search_terms) + 1) :
            /\ \E data \in EmbeddingData(k) :
                 term_embeddings' =
                   CollectEmbeddings(generate_embeddings_batch(valid_value_search_terms, data))
            /\ embedding_result' = [tag |-> "ok"]
       \/ /\ term_embeddings' = {}
          /\ embedding_result' = [tag |-> "err"]
    /\ pc' = "value_search"
    /\ UNCHANGED <<params, ret, output, agent_state, fetch_result, all_datasets,
                   syntax_task, value_search_terms, valid_value_search_terms,
                   value_search_tasks, all_found_values, documents,
                   rerank_errors, rr, fl, combined_results,
                   updated_results, calls, merge_input, call>>

\* line 458: the spawned batch task did not join; `?` returns the JoinError
EmbeddingJoinError ==
    /\ pc = "embedding"
    /\ embedding_result' = [tag |-> "panicked"]
    /\ ret' = "err"
    /\ pc' = "done"
    /\ UNCHANGED <<params, output, agent_state, fetch_result, all_datasets,
                   syntax_task, value_search_terms, valid_value_search_terms,
                   term_embeddings, value_search_tasks, all_found_values,
                   documents, rerank_errors, rr, fl,
                   combined_results, updated_results, calls, merge_input, call>>

\* lines 472-495: one search task per embedded term
SpawnValueSearches ==
    /\ pc = "value_search"
    /\ value_search_tasks' =
           { [term |-> e.term, data_source_id |-> target_data_source_id,
              st |-> "running", values |-> <<>>] : e \in term_embeddings }
    /\ calls' = [calls EXCEPT !.index = @ + Cardinality(term_embeddings)]
    /\ pc' = "value_join"
    /\ UNCHANGED <<params, ret, output, agent_state, fetch_result, all_datasets,
                   syntax_task, value_search_terms, valid_value_search_terms,
                   term_embeddings, all_found_values, documents, rerank_errors,
                   rr, fl, combined_results, updated_results,
                   merge_input, embedding_result, call>>

\* lines 482-491: a search task ends: Ok(values), Err, or it panics
ValueSearchReturn ==
    /\ pc = "value_join"
    /\ \E t \in value_search_tasks :
         /\ t.st = "running"
         /\ \/ \E values \in IndexLists :
                 value_search_tasks' = (value_search_tasks \ {t}) \cup
                     {[t EXCEPT !.st = "ok", !.values = values]}
            \/ value_search_tasks' = (value_search_tasks \ {t}) \cup
                     {[t EXCEPT !.st = "err"]}
            \/ value_search_tasks' = (value_search_tasks \ {t}) \cup
                     {[t EXCEPT !.st = "panicked"]}
    /\ UNCHANGED <<pc, params, ret, output, agent_state, fetch_result,
                   all_datasets, syntax_task, value_search_terms,
                   valid_value_search_terms, term_embeddings, all_found_values,
                   documents, rerank_errors, rr, fl,
                   combined_results, updated_results, calls, merge_input, embedding_result, call>>

\* a term -> values map with no entry for a search that failed
found_values_by_term_without_failed(tasks) == { t \in tasks : t.st = "ok" }

\* lines 498-527: the term -> values map; a task that did not join is left
\* out, a search that failed maps to the empty list
found_values_by_term(tasks) == { t \in tasks : t.st # "panicked" }

\* arrangements of a finite set (iteration orders of a small HashMap)
Arrangements(S) ==
    { o \in [1..Cardinality(S) -> S] : \A i, j \in 1..Cardinality(S) : o[i] = o[j] => i = j }

----------------------------------------------------------------------------
(* Rerank and LLM filter of one query or topic                             *)

\* what the rerank provider can answer for n documents: up to n indices, of
\* which 0..n-1 are in range and n is not
RerankResponses(n) == SeqsUpTo(0..n, n)

\* rerank_datasets giving up at the first index that is out of range
RECURSIVE rerank_datasets_until_invalid(_, _)
rerank_datasets_until_invalid(datasets, rerank_results) ==
    IF rerank_results = <<>> THEN <<>>
    ELSE IF Head(rerank_results) < Len(datasets)
         THEN <<[dataset |-> datasets[Head(rerank_results) + 1]]>>
              \o rerank_datasets_until_invalid(datasets, Tail(rerank_results))
         ELSE <<>>

\* rerank_datasets (Ok arm), lines 904-922: the datasets at the indices of
\* the response; all_datasets.get(index) is None for an index out of range
RECURSIVE rerank_datasets(_, _)
rerank_datasets(datasets, rerank_results) ==
    IF rerank_results = <<>> THEN <<>>
    ELSE LET index == Head(rerank_results)
             rest == rerank_datasets(datasets, Tail(rerank_results))
         IN  IF index < Len(datasets)
             THEN <<[dataset |-> datasets[index + 1]]>> \o rest
             ELSE rest

DatasetResult(dataset) ==
    [id |-> dataset.id, name |-> Some(dataset.name), yml_content |-> dataset.yml_content]

\* llm_filter_helper keeping every identity that parses, ranked or not
RECURSIVE llm_filter_helper_keeps_unranked(_, _)
llm_filter_helper_keeps_unranked(ranked_datasets, results) ==
    IF results = <<>> THEN <<>>
    ELSE LET dataset_id_str == Head(results)
             rest == llm_filter_helper_keeps_unranked(ranked_datasets, Tail(results))
         IN  IF dataset_id_str.parses
             THEN <<[id |-> dataset_id_str.id, name |-> None, yml_content |-> None]>>
                  \o rest
             ELSE rest

\* llm_filter_helper (Ok arm), lines 1027-1064: every identity string that
\* parses and is the id of a ranked dataset, in the order of the response
RECURSIVE llm_filter_helper(_, _)
llm_filter_helper(ranked_datasets, results) ==
    IF results = <<>> THEN <<>>
    ELSE LET dataset_id_str == Head(results)
             rest == llm_filter_helper(ranked_datasets, Tail(results))
             hits == { i \in 1..Len(ranked_datasets) :
                         ranked_datasets[i].dataset.id = dataset_id_str.id }
         IN  IF dataset_id_str.parses /\ hits # {}
             THEN <<DatasetResult(
                      ranked_datasets[CHOOSE i \in hits : \A j \in hits : j <= i].dataset)>>
                  \o rest
             ELSE rest

\* a stream that polls every waiting item at once: the futures are started
\* with no limit on the number in flight
StartedUncapped(stream) == Len(stream.queue)

\* StreamExt::buffer_unordered: on each poll the stream starts queued
\* futures until BufferCap of them are in flight
Started(stream) ==
    LET room == BufferCap - Cardinality(stream.inflight)
    IN  IF Len(stream.queue) < room THEN Len(stream.queue) ELSE room

\* a rerank future at its first poll: rerank_datasets returns at once for
\* an empty document or dataset list (line 883), else it calls the provider
RerankFuture(item, datasets, docs) ==
    [idx |-> item.idx, query |-> item.query, seen |-> <<>>,
     st |-> IF docs = <<>> \/ datasets = <<>> THEN "skip" ELSE "calling"]

FillRerank(stream, datasets, docs) ==
    [stream EXCEPT
       !.inflight = @ \cup { RerankFuture(stream.queue[i], datasets, docs) :
                             i \in 1..Started(stream) },
       !.queue = SubSeq(@, Started(stream) + 1, Len(@))]

\* provider calls issued by the futures a fill started
CallsStarted(before, after) ==
    Cardinality({ f \in after.inflight \ before.inflight : f.st = "calling" })

\* stream::iter(list): the items with their position in the list
StreamOf(list) ==
    [queue |-> [i \in 1..Len(list) |-> [idx |-> i, query |-> list[i]]],
     inflight |-> {}, out |-> <<>>]

\* the value search terms taken as queries when no query is given
specific_queries_or_terms ==
    IF params.specific_queries.some THEN params.specific_queries.v
    ELSE [i \in 1..Len(UnwrapOrDefault(params.value_search_terms)) |-> i]

specific_queries == UnwrapOrDefault(params.specific_queries)
exploratory_topics == UnwrapOrDefault(params.exploratory_topics)

\* lines 557-560: the documents of the datasets (filter_map over yml_content)
RECURSIVE DocumentsOf(_)
DocumentsOf(datasets) ==
    IF datasets = <<>> THEN <<>>
    ELSE IF Head(datasets).yml_content.some
         THEN <<Head(datasets).yml_content.v>> \o DocumentsOf(Tail(datasets))
         ELSE DocumentsOf(Tail(datasets))

\* lines 497-604: the searches are joined and flattened; the invocation
\* returns early with nothing to search for or with no document, else the
\* specific rerank stream is polled for the first time
JoinValueSearches ==
    /\ pc = "value_join"
    /\ \A t \in value_search_tasks : t.st # "running"
    /\ \E order \in Arrangements(found_values_by_term(value_search_tasks)) :
         all_found_values' = Flatten([i \in 1..Len(order) |-> order[i].values])
    /\ documents' = DocumentsOf(all_datasets)
    /\ IF /\ specific_queries = <<>>
          /\ exploratory_topics = <<>>
          /\ all_found_values' = <<>>
          /\ valid_value_search_terms = <<>>
       THEN /\ output' = EarlyOutput("no_queries", Some(target_data_source_id))
            /\ ret' = "ok"
            /\ pc' = "done"
            /\ UNCHANGED <<rr, calls>>
       ELSE IF documents' = <<>>
       THEN /\ output' = EarlyOutput("no_content", Some(target_data_source_id))
            /\ ret' = "ok"
            /\ pc' = "done"
            /\ UNCHANGED <<rr, calls>>
       ELSE /\ rr' = [rr EXCEPT !["specific"] =
                        FillRerank(StreamOf(specific_queries), all_datasets, documents')]
            /\ calls' = [calls EXCEPT !.rerank =
                           @ + CallsStarted(StreamOf(specific_queries), rr'["specific"])]
            /\ pc' = "rerank_specific"
            /\ UNCHANGED <<output, ret>>
    /\ UNCHANGED <<params, agent_state, fetch_result, all_datasets, syntax_task,
                   value_search_terms, valid_value_search_terms, term_embeddings,
                   value_search_tasks, rerank_errors, fl,
                   combined_results, updated_results, merge_input, embedding_result, call>>

\* the group whose stream execute is collecting
Collecting ==
    IF pc \in {"rerank_specific", "filter_specific"} THEN "specific" ELSE "exploratory"

InRerank == pc \in {"rerank_specific", "rerank_exploratory"}
InFilter == pc \in {"filter_specific", "filter_exploratory"}

\* a future of the stream completed: its output is yielded and the next poll
\* refills the buffer
YieldRerank(stream, f, entry) ==
    FillRerank([stream EXCEPT !.inflight = @ \ {f}, !.out = Append(@, entry)],
               all_datasets, documents)

\* lines 590-591 and 601: rerank_datasets returned Ok(ranked)
RerankOk ==
    /\ InRerank
    /\ \E f \in rr[Collecting].inflight :
         /\ f.st \in {"calling", "skip"}
         /\ \E ranked \in { rerank_datasets(all_datasets, rerank_results) :
                              rerank_results \in
                                IF f.st = "skip" THEN {<<>>}
                                ELSE RerankResponses(Len(documents)) } :
              rr' = [rr EXCEPT ![Collecting] =
                       YieldRerank(@, f, [idx |-> f.idx, query |-> f.query,
                                          ok |-> TRUE, ranked |-> ranked])]
    /\ calls' = [calls EXCEPT !.rerank = @ + CallsStarted(rr[Collecting], rr'[Collecting])]
    /\ UNCHANGED <<pc, params, ret, output, agent_state, fetch_result,
                   all_datasets, syntax_task, value_search_terms,
                   valid_value_search_terms, term_embeddings, value_search_tasks,
                   all_found_values, documents, rerank_errors, fl,
                   combined_results, updated_results, merge_input, embedding_result, call>>

\* the branches of the rerank streams that hold the guard of rerank_errors
LockHolders ==
    { gf \in UNION { {g} \X rr[g].inflight : g \in Groups } : gf[2].st = "locked" }

\* a failed rerank call whose branch waits for the lock and never gets it
RerankErrAwaitsForever ==
    /\ InRerank
    /\ \E f \in rr[Collecting].inflight :
         /\ f.st = "calling"
         /\ rr' = [rr EXCEPT ![Collecting].inflight =
                     (@ \ {f}) \cup {[f EXCEPT !.st = "awaits_lock"]}]
    /\ UNCHANGED <<pc, params, ret, output, agent_state, fetch_result,
                   all_datasets, syntax_task, value_search_terms,
                   valid_value_search_terms, term_embeddings, value_search_tasks,
                   all_found_values, documents, rerank_errors, fl,
                   combined_results, updated_results, calls, merge_input, embedding_result, call>>

\* a branch that takes the vector without waiting for the mutex
RerankErrNoLock ==
    /\ InRerank
    /\ \E f \in rr[Collecting].inflight :
         /\ f.st = "calling"
         /\ rr' = [rr EXCEPT ![Collecting].inflight =
                     (@ \ {f}) \cup {[f EXCEPT !.st = "locked", !.seen = rerank_errors]}]
    /\ UNCHANGED <<pc, params, ret, output, agent_state, fetch_result,
                   all_datasets, syntax_task, value_search_terms,
                   valid_value_search_terms, term_embeddings, value_search_tasks,
                   all_found_values, documents, rerank_errors, fl,
                   combined_results, updated_results, calls, merge_input, embedding_result, call>>

\* lines 592-595: rerank_datasets returned Err and
\* rerank_errors_clone.lock().await gave the branch the guard, which it gets
\* once no other branch holds it; through the guard it sees the vector
RerankErr ==
    /\ InRerank
    /\ LockHolders = {}
    /\ \E f \in rr[Collecting].inflight :
         /\ f.st = "calling"
         /\ rr' = [rr EXCEPT ![Collecting].inflight =
                     (@ \ {f}) \cup {[f EXCEPT !.st = "locked", !.seen = rerank_errors]}]
    /\ UNCHANGED <<pc, params, ret, output, agent_state, fetch_result,
                   all_datasets, syntax_task, value_search_terms,
                   valid_value_search_terms, term_embeddings, value_search_tasks,
                   all_found_values, documents, rerank_errors, fl,
                   combined_results, updated_results, calls, merge_input, embedding_result, call>>

\* the text of one rerank error names the group and the query or topic
RerankErrorMessage(group, query) == [group |-> group, query |-> query]

\* lines 595-601: the branch pushes the error onto the vector it sees
\* through the guard, drops the guard and yields an empty ranked list
RerankPushError ==
    /\ InRerank
    /\ \E f \in rr[Collecting].inflight :
         /\ f.st = "locked"
         /\ rerank_errors' = Append(f.seen, RerankErrorMessage(Collecting, f.query))
         /\ rr' = [rr EXCEPT ![Collecting] =
                     YieldRerank(@, f, [idx |-> f.idx, query |-> f.query,
                                        ok |-> FALSE, ranked |-> <<>>])]
    /\ calls' = [calls EXCEPT !.rerank = @ + CallsStarted(rr[Collecting], rr'[Collecting])]
    /\ UNCHANGED <<pc, params, ret, output, agent_state, fetch_result,
                   all_datasets, syntax_task, value_search_terms,
                   valid_value_search_terms, term_embeddings, value_search_tasks,
                   all_found_values, documents, fl, combined_results,
                   updated_results, merge_input, embedding_result, call>>

StreamDone(stream) == stream.queue = <<>> /\ stream.inflight = {}

\* the exploratory stream polled while the specific stream is still being
\* collected
CollectSpecificRerankEarly ==
    /\ pc = "rerank_specific"
    /\ rr' = [rr EXCEPT !["exploratory"] =
                FillRerank(StreamOf(exploratory_topics), all_datasets, documents)]
    /\ calls' = [calls EXCEPT !.rerank =
                    @ + CallsStarted(StreamOf(exploratory_topics), rr'["exploratory"])]
    /\ pc' = "rerank_exploratory"
    /\ UNCHANGED <<params, ret, output, agent_state, fetch_result, all_datasets,
                   syntax_task, value_search_terms, valid_value_search_terms,
                   term_embeddings, value_search_tasks, all_found_values,
                   documents, rerank_errors, fl, combined_results,
                   updated_results, merge_input, embedding_result, call>>

\* line 632 to 633: the specific stream is collected; the exploratory stream
\* is polled for the first time
CollectSpecificRerank ==
    /\ pc = "rerank_specific"
    /\ StreamDone(rr["specific"])
    /\ rr' = [rr EXCEPT !["exploratory"] =
                FillRerank(StreamOf(exploratory_topics), all_datasets, documents)]
    /\ calls' = [calls EXCEPT !.rerank =
                    @ + CallsStarted(StreamOf(exploratory_topics), rr'["exploratory"])]
    /\ pc' = "rerank_exploratory"
    /\ UNCHANGED <<params, ret, output, agent_state, fetch_result, all_datasets,
                   syntax_task, value_search_terms, valid_value_search_terms,
                   term_embeddings, value_search_tasks, all_found_values,
                   documents, rerank_errors, fl, combined_results,
                   updated_results, merge_input, embedding_result, call>>

\* a filter future that calls the LLM whatever was ranked
FilterFutureAlwaysCalls(item) ==
    [idx |-> item.idx, query |-> item.query, ok |-> item.ok, ranked |-> item.ranked,
     st |-> "calling"]

\* a filter future at its first poll: with an empty ranked list it returns
\* Ok(vec![]) at once (lines 645-647), else it calls the LLM
FilterFuture(item) ==
    [idx |-> item.idx, query |-> item.query, ok |-> item.ok, ranked |-> item.ranked,
     st |-> IF item.ranked = <<>> THEN "skip" ELSE "calling"]

FillFilter(stream) ==
    [stream EXCEPT
       !.inflight = @ \cup { FilterFuture(stream.queue[i]) : i \in 1..Started(stream) },
       !.queue = SubSeq(@, Started(stream) + 1, Len(@))]

\* stream::iter(reranked_vec): the vector is moved into the stream
FilterStreamOf(reranked_vec) == [queue |-> reranked_vec, inflight |-> {}, out |-> <<>>]

\* the filter streams built without awaiting the exploratory rerank stream:
\* a topic still being reranked is handed to the filter with every candidate
CollectExploratoryRerankEarly ==
    /\ pc = "rerank_exploratory"
    /\ LET pending == SortedSeq({ f.idx : f \in rr["exploratory"].inflight })
           unranked == [k \in 1..Len(pending) |->
                          [idx |-> pending[k], query |-> pending[k], ok |-> TRUE,
                           ranked |-> [i \in 1..Len(all_datasets) |->
                                         [dataset |-> all_datasets[i]]]]]
       IN  fl' = [g \in Groups |->
                    IF g = "specific" THEN FillFilter(FilterStreamOf(rr[g].out))
                    ELSE FilterStreamOf(rr[g].out \o unranked)]
    /\ rr' = [g \in Groups |-> EmptyStream]
    /\ calls' = [calls EXCEPT !.llm =
                    @ + CallsStarted(FilterStreamOf(rr["specific"].out), fl'["specific"])]
    /\ pc' = "filter_specific"
    /\ UNCHANGED <<params, ret, output, agent_state, fetch_result, all_datasets,
                   syntax_task, value_search_terms, valid_value_search_terms,
                   term_embeddings, value_search_tasks, all_found_values,
                   documents, rerank_errors, combined_results,
                   updated_results, merge_input, embedding_result, call>>

\* lines 633-684: the exploratory rerank stream is collected, both filter
\* streams are built and the specific one is polled for the first time
CollectExploratoryRerank ==
    /\ pc = "rerank_exploratory"
    /\ StreamDone(rr["exploratory"])
    /\ fl' = [g \in Groups |->
                IF g = "specific" THEN FillFilter(FilterStreamOf(rr[g].out))
                ELSE FilterStreamOf(rr[g].out)]
    /\ rr' = [g \in Groups |-> EmptyStream]
    /\ calls' = [calls EXCEPT !.llm =
                    @ + CallsStarted(FilterStreamOf(rr["specific"].out), fl'["specific"])]
    /\ pc' = "filter_specific"
    /\ UNCHANGED <<params, ret, output, agent_state, fetch_result, all_datasets,
                   syntax_task, value_search_terms, valid_value_search_terms,
                   term_embeddings, value_search_tasks, all_found_values,
                   documents, rerank_errors, combined_results,
                   updated_results, merge_input, embedding_result, call>>

\* a filter future completed: its Result is yielded and the buffer refilled;
\* idx and src record which query or topic the result came from and how
YieldFilter(stream, f, src, res) ==
    FillFilter([stream EXCEPT
                  !.inflight = @ \ {f},
                  !.out = Append(@, [idx |-> f.idx, src |-> src, res |-> res])])

\* lines 645-647: nothing was ranked, no LLM call
FilterSkip ==
    /\ InFilter
    /\ \E f \in fl[Collecting].inflight :
         /\ f.st = "skip"
         /\ fl' = [fl EXCEPT ![Collecting] =
                     YieldFilter(@, f, IF f.ok THEN "nothing_ranked" ELSE "rerank_failed",
                                 <<>>)]
    /\ calls' = [calls EXCEPT !.llm = @ + CallsStarted(fl[Collecting], fl'[Collecting])]
    /\ UNCHANGED <<pc, params, ret, output, agent_state, fetch_result,
                   all_datasets, syntax_task, value_search_terms,
                   valid_value_search_terms, term_embeddings, value_search_tasks,
                   all_found_values, documents, rerank_errors, rr,
                   combined_results, updated_results, merge_input, embedding_result, call>>

\* lines 649-650: the LLM answered with a parseable list of identity strings
FilterOk ==
    /\ InFilter
    /\ \E f \in fl[Collecting].inflight :
         /\ f.st = "calling"
         /\ \E filtered \in { llm_filter_helper(f.ranked, results) : results \in LlmLists } :
              fl' = [fl EXCEPT ![Collecting] = YieldFilter(@, f, "filtered", filtered)]
    /\ calls' = [calls EXCEPT !.llm = @ + CallsStarted(fl[Collecting], fl'[Collecting])]
    /\ UNCHANGED <<pc, params, ret, output, agent_state, fetch_result,
                   all_datasets, syntax_task, value_search_terms,
                   valid_value_search_terms, term_embeddings, value_search_tasks,
                   all_found_values, documents, rerank_errors, rr,
                   combined_results, updated_results, merge_input, embedding_result, call>>

\* a filter branch that hands the error of llm_filter_helper to execute,
\* which returns it
FilterErrAborts ==
    /\ InFilter
    /\ \E f \in fl[Collecting].inflight : f.st = "calling"
    /\ ret' = "err"
    /\ pc' = "done"
    /\ UNCHANGED <<params, output, agent_state, fetch_result,
                   all_datasets, syntax_task, value_search_terms,
                   valid_value_search_terms, term_embeddings, value_search_tasks,
                   all_found_values, documents, rerank_errors, rr, fl, calls,
                   combined_results, updated_results, merge_input, embedding_result, call>>

\* a filter branch that keeps every ranked candidate when llm_filter_helper
\* returned Err
FilterErrKeepsRanked ==
    /\ InFilter
    /\ \E f \in fl[Collecting].inflight :
         /\ f.st = "calling"
         /\ \E failure \in LlmFailures :
              fl' = [fl EXCEPT ![Collecting] =
                       YieldFilter(@, f, failure,
                                   [i \in 1..Len(f.ranked) |-> DatasetResult(f.ranked[i].dataset)])]
    /\ calls' = [calls EXCEPT !.llm = @ + CallsStarted(fl[Collecting], fl'[Collecting])]
    /\ UNCHANGED <<pc, params, ret, output, agent_state, fetch_result,
                   all_datasets, syntax_task, value_search_terms,
                   valid_value_search_terms, term_embeddings, value_search_tasks,
                   all_found_values, documents, rerank_errors, rr,
                   combined_results, updated_results, merge_input, embedding_result, call>>

\* lines 651-654: llm_filter_helper returned Err (the call failed, the
\* response had no content, or the content was no LLMFilterResponse); the
\* error is logged and the branch yields Ok(vec![])
FilterErr ==
    /\ InFilter
    /\ \E f \in fl[Collecting].inflight :
         /\ f.st = "calling"
         /\ \E failure \in LlmFailures :
              fl' = [fl EXCEPT ![Collecting] = YieldFilter(@, f, failure, <<>>)]
    /\ calls' = [calls EXCEPT !.llm = @ + CallsStarted(fl[Collecting], fl'[Collecting])]
    /\ UNCHANGED <<pc, params, ret, output, agent_state, fetch_result,
                   all_datasets, syntax_task, value_search_terms,
                   valid_value_search_terms, term_embeddings, value_search_tasks,
                   all_found_values, documents, rerank_errors, rr,
                   combined_results, updated_results, merge_input, embedding_result, call>>

\* line 684 to 685: the specific filter stream is collected, the exploratory
\* one is polled for the first time
CollectSpecificFilter ==
    /\ pc = "filter_specific"
    /\ StreamDone(fl["specific"])
    /\ fl' = [fl EXCEPT !["exploratory"] = FillFilter(@)]
    /\ calls' = [calls EXCEPT !.llm =
                    @ + CallsStarted(fl["exploratory"], fl'["exploratory"])]
    /\ pc' = "filter_exploratory"
    /\ UNCHANGED <<params, ret, output, agent_state, fetch_result, all_datasets,
                   syntax_task, value_search_terms, valid_value_search_terms,
                   term_embeddings, value_search_tasks, all_found_values,
                   documents, rerank_errors, rr, combined_results,
                   updated_results, merge_input, embedding_result, call>>

----------------------------------------------------------------------------
(* Merge, value injection and response                                     *)

\* the merge without the unique_ids set
MergeIntoNoDedupe(combined, datasets) == combined \o datasets

\* lines 688-719: datasets are pushed in order unless unique_ids has the id
RECURSIVE MergeInto(_, _)
MergeInto(combined, datasets) ==
    IF datasets = <<>> THEN combined
    ELSE IF \E i \in 1..Len(combined) : combined[i].id = Head(datasets).id
         THEN MergeInto(combined, Tail(datasets))
         ELSE MergeInto(Append(combined, Head(datasets)), Tail(datasets))

\* a merge that takes from each stream the output that completed first
CombineResultsFirstCompleted(specific_results_vec, exploratory_results_vec) ==
    MergeInto(MergeInto(<<>>,
        IF specific_results_vec = <<>> THEN <<>> ELSE specific_results_vec[1].res),
        IF exploratory_results_vec = <<>> THEN <<>> ELSE exploratory_results_vec[1].res)

\* the results of the specific stream, then those of the exploratory stream
CombineResults(specific_results_vec, exploratory_results_vec) ==
    MergeInto(MergeInto(<<>>,
        Flatten([i \in 1..Len(specific_results_vec) |-> specific_results_vec[i].res])),
        Flatten([i \in 1..Len(exploratory_results_vec) |-> exploratory_results_vec[i].res]))

\* hasher seeds that give every rotation and reflection of n values
HashSeeds(n) == 0..(IF n = 0 THEN 0 ELSE 2 * n - 1)

\* what inject_prefound_values_into_yml can return for a document
InjectOutcomes(yml_content, all_found) ==
    { inject_prefound_values_into_yml(yml_content, all_found, order, seed) :
        order \in DbIterOrders(extract_database_info_from_yaml(yml_content)),
        seed \in HashSeeds(Len(all_found)) }

\* lines 734-761: one pass of the enrichment loop
UpdatedOutcomes(result, all_found) ==
    IF ~result.yml_content.some THEN {result}
    ELSE { IF r.ok THEN [result EXCEPT !.yml_content = Some(r.yml)] ELSE result :
           r \in InjectOutcomes(result.yml_content.v, all_found) }

\* an enrichment loop that stops at the first document it cannot parse
EnrichmentLoopStopsAtError(results, all_found) ==
    LET failing == { i \in 1..Len(results) :
                       results[i].yml_content.some /\ ~results[i].yml_content.v.valid }
        n == IF failing = {} THEN Len(results)
             ELSE (CHOOSE i \in failing : \A j \in failing : i <= j) - 1
    IN  { u \in [1..n -> UNION { UpdatedOutcomes(results[i], all_found) : i \in 1..n }] :
            \A i \in 1..n : u[i] \in UpdatedOutcomes(results[i], all_found) }

\* lines 732-761: the enrichment loop over the merged results, each result
\* updated on its own
EnrichmentLoop(results, all_found) ==
    { u \in [1..Len(results) ->
               UNION { UpdatedOutcomes(results[i], all_found) : i \in 1..Len(results) }] :
        \A i \in 1..Len(results) : u[i] \in UpdatedOutcomes(results[i], all_found) }

\* the datasets the two collected vectors hold, in the order of the merge
MergeInput(specific_results_vec, exploratory_results_vec) ==
    Flatten([i \in 1..Len(specific_results_vec) |-> specific_results_vec[i].res])
    \o Flatten([i \in 1..Len(exploratory_results_vec) |-> exploratory_results_vec[i].res])

\* how often each dataset id occurs in a list of datasets
Occurrences(datasets) ==
    [id \in CatalogIds |-> Cardinality({ i \in 1..Len(datasets) : datasets[i].id = id })]

\* lines 685-761: the exploratory filter stream is collected, the two result
\* vectors are consumed by the merge and the values injected; merge_input
\* records how often each dataset occurred in the consumed vectors
MergeAndEnrich ==
    /\ pc = "filter_exploratory"
    /\ StreamDone(fl["exploratory"])
    /\ combined_results' = CombineResults(fl["specific"].out, fl["exploratory"].out)
    /\ merge_input' = Occurrences(MergeInput(fl["specific"].out, fl["exploratory"].out))
    /\ updated_results' \in EnrichmentLoop(combined_results', all_found_values)
    /\ fl' = [g \in Groups |-> EmptyStream]
    /\ pc' = "await_syntax"
    /\ UNCHANGED <<params, ret, output, agent_state, fetch_result, all_datasets,
                   syntax_task, value_search_terms, valid_value_search_terms,
                   term_embeddings, value_search_tasks, all_found_values,
                   documents, rerank_errors, rr, calls, embedding_result, call>>

\* the status message without the warning lines
FinalMessageNoWarnings(results, errors) ==
    [kind |-> IF results = <<>> THEN "none_found" ELSE "found",
     count |-> Len(results), warnings |-> <<>>]

\* lines 776-792: the status message with one warning line per rerank error
FinalMessage(results, errors) ==
    [kind |-> IF results = <<>> THEN "none_found" ELSE "found",
     count |-> Len(results), warnings |-> errors]

\* lines 765-815: the syntax task is joined, the message assembled under the
\* mutex, the two flags published and the output returned
Respond ==
    /\ pc = "await_syntax"
    /\ syntax_task # "running"
    /\ agent_state' = [agent_state EXCEPT
                         !.data_context = Val(updated_results # <<>>),
                         !.searched_data_catalog = Val(TRUE)]
    /\ output' = [message |-> FinalMessage(updated_results, rerank_errors),
                  specific_queries |-> params.specific_queries,
                  exploratory_topics |-> params.exploratory_topics,
                  results |-> updated_results,
                  data_source_id |-> Some(target_data_source_id)]
    /\ ret' = "ok"
    /\ pc' = "done"
    /\ UNCHANGED <<params, fetch_result, all_datasets, syntax_task,
                   value_search_terms, valid_value_search_terms, term_embeddings,
                   value_search_tasks, all_found_values, documents,
                   rerank_errors, rr, fl, combined_results,
                   updated_results, calls, merge_input, embedding_result, call>>

Next ==
    \/ FetchJoinError
    \/ FetchError
    \/ FetchDatasets
    \/ SyntaxTask
    \/ TermFilterStep
    \/ EmbeddingBatch
    \/ EmbeddingJoinError
    \/ SpawnValueSearches
    \/ ValueSearchReturn
    \/ JoinValueSearches
    \/ RerankOk
    \/ RerankErr
    \/ RerankPushError
    \/ CollectSpecificRerank
    \/ CollectExploratoryRerank
    \/ FilterSkip
    \/ FilterOk
    \/ FilterErr
    \/ CollectSpecificFilter
    \/ MergeAndEnrich
    \/ Respond

Spec == Init /\ [][Next]_vars

----------------------------------------------------------------------------
(* The term filter, rerank_datasets and inject_prefound_values_into_yml    *)
(* applied on their own to inputs drawn from bounded sets                  *)

NoParams ==
    [specific_queries |-> None, exploratory_topics |-> None,
     value_search_terms |-> None]

pipeline_vars ==
    <<pc, params, ret, output, agent_state, fetch_result, all_datasets,
      syntax_task, value_search_terms, valid_value_search_terms,
      term_embeddings, value_search_tasks, all_found_values, documents,
      rerank_errors, rr, fl, combined_results, updated_results, calls,
      merge_input, embedding_result>>

MaxTerms == 2           \* terms of one term list
MaxTermChars == 2       \* characters of one term

\* an upper-case letter, a digit and a two-byte character
TermChars == {"Q", "1", "e_acute"}
TermLists == SeqsUpTo(SeqsUpTo(TermChars, MaxTermChars), MaxTerms)

InitTermFilter ==
    /\ Called(NoParams)
    /\ \E terms \in TermLists :
         call = [fn |-> "term_filter", terms |-> terms,
                 returned |-> FALSE, result |-> <<>>]

\* lines 442-448 applied to call.terms
ApplyTermFilter ==
    /\ call.fn = "term_filter"
    /\ ~call.returned
    /\ call' = [call EXCEPT !.returned = TRUE, !.result = TermFilter(call.terms)]
    /\ UNCHANGED pipeline_vars

SpecTermFilter == InitTermFilter /\ [][ApplyTermFilter]_vars

MaxCandidates == 2      \* datasets handed to rerank_datasets
MaxRerankResults == 3   \* results of one provider response

\* candidate lists: datasets 1..n, each with its document
CandidateLists ==
    { [i \in 1..n |-> PermissionedDataset(i, TRUE)] : n \in 0..MaxCandidates }

\* provider responses: indices 0..MaxCandidates, the last out of range for
\* every candidate list
ProviderResponses == SeqsUpTo(0..MaxCandidates, MaxRerankResults)

InitRerank ==
    /\ Called(NoParams)
    /\ \E datasets \in CandidateLists, rerank_results \in ProviderResponses :
         call = [fn |-> "rerank_datasets", datasets |-> datasets,
                 rerank_results |-> rerank_results,
                 returned |-> FALSE, result |-> <<>>]

\* rerank_datasets with the provider answering call.rerank_results
ApplyRerank ==
    /\ call.fn = "rerank_datasets"
    /\ ~call.returned
    /\ call' = [call EXCEPT !.returned = TRUE,
                            !.result = rerank_datasets(call.datasets, call.rerank_results)]
    /\ UNCHANGED pipeline_vars

SpecRerank == InitRerank /\ [][ApplyRerank]_vars

MaxDistinctValues == 21 \* distinct stored values found for one column
MaxRepeats == 2         \* found values that repeat an earlier one

\* found values of products.brand: n distinct values, then r repeats of
\* the first, then one value of another column
FoundList(n, r) ==
    [i \in 1..(n + r + 1) |->
        IF i <= n THEN FoundValueInfo(i, "analytics", "public", "products", "brand")
        ELSE IF i <= n + r
        THEN FoundValueInfo(1, "analytics", "public", "products", "brand")
        ELSE FoundValueInfo(1, "analytics", "public", "products", "sku")]

FoundLists ==
    { FoundList(n, r) : n \in 1..MaxDistinctValues, r \in 0..MaxRepeats }
    \cup {<<>>}

InitInject ==
    /\ Called(NoParams)
    /\ \E id \in 1..(NumDatasets + 1), all_found \in FoundLists :
         call = [fn |-> "inject_prefound_values_into_yml",
                 yml_content |-> CatalogYml(id), all_found |-> all_found,
                 returned |-> FALSE,
                 result |-> [ok |-> FALSE, yml |-> CatalogYml(id)]]

\* inject_prefound_values_into_yml under some iteration order of its
\* HashMap and HashSet
ApplyInject ==
    /\ call.fn = "inject_prefound_values_into_yml"
    /\ ~call.returned
    /\ \E r \in InjectOutcomes(call.yml_content, call.all_found) :
         call' = [call EXCEPT !.returned = TRUE, !.result = r]
    /\ UNCHANGED pipeline_vars

SpecInject == InitInject /\ [][ApplyInject]_vars

\* documents handed to the enricher: the products document, a document in
\* which two models share the name products under different schemas, and a
\* products document that already carries relevant_values
EnricherDocs ==
    { CatalogYml(1),
      Yml("source", TRUE,
          <<Model("products", "analytics", "public",
                  <<Dim("brand", TRUE, FALSE, <<>>)>>),
            Model("products", "analytics", "staging",
                  <<Dim("brand", FALSE, FALSE, <<>>)>>)>>),
      Yml("source", TRUE,
          <<Model("products", "analytics", "public",
                  <<Dim("brand", TRUE, TRUE, <<7>>),
                    Dim("sku", FALSE, FALSE, <<>>)>>)>>) }

\* found values of staging.products.brand
StagingValue == FoundValueInfo(9, "analytics", "staging", "products", "brand")

\* found value lists handed to the enricher: none, one value found twice,
\* about as many distinct values as are injected, with and without a value
\* of the staging schema
EnricherLists ==
    LET public == { FoundList(n, 0) : n \in (MaxDistinctValues - 2)..MaxDistinctValues }
                  \cup { FoundList(1, 1) }
    IN  {<<>>, <<StagingValue>>} \cup public \cup { <<StagingValue>> \o l : l \in public }

InitEnrich ==
    /\ Called(NoParams)
    /\ \E yml_content \in EnricherDocs, all_found \in EnricherLists :
         call = [fn |-> "enrich", yml_content |-> yml_content,
                 all_found |-> all_found, runs |-> 0,
                 first |-> [ok |-> FALSE, yml |-> yml_content],
                 second |-> [ok |-> FALSE, yml |-> yml_content]]

\* inject_prefound_values_into_yml on the document
EnrichFirst ==
    /\ call.fn = "enrich"
    /\ call.runs = 0
    /\ \E r \in InjectOutcomes(call.yml_content, call.all_found) :
         call' = [call EXCEPT !.runs = 1, !.first = r]
    /\ UNCHANGED pipeline_vars

\* inject_prefound_values_into_yml on the document the first run returned,
\* with the same found values
EnrichSecond ==
    /\ call.fn = "enrich"
    /\ call.runs = 1
    /\ call.first.ok
    /\ \E r \in InjectOutcomes(call.first.yml, call.all_found) :
         call' = [call EXCEPT !.runs = 2, !.second = r]
    /\ UNCHANGED pipeline_vars

NextEnrich == EnrichFirst \/ EnrichSecond

SpecEnrich == InitEnrich /\ [][NextEnrich]_vars

MaxRanked == 2          \* ranked candidates handed to llm_filter_helper

\* ranked candidate lists: documented datasets of the catalog in any order,
\* a dataset possibly ranked twice
RankedLists ==
    { [i \in 1..Len(ids) |-> [dataset |-> PermissionedDataset(ids[i], TRUE)]] :
        ids \in SeqsUpTo(CatalogIds, MaxRanked) }

InitFilter ==
    /\ Called(NoParams)
    /\ \E ranked_datasets \in RankedLists, results \in LlmLists :
         call = [fn |-> "llm_filter_helper", ranked_datasets |-> ranked_datasets,
                 results |-> results, returned |-> FALSE, result |-> <<>>]

\* llm_filter_helper with the LLM answering call.results
ApplyFilter ==
    /\ call.fn = "llm_filter_helper"
    /\ ~call.returned
    /\ call' = [call EXCEPT
                  !.returned = TRUE,
                  !.result = llm_filter_helper(call.ranked_datasets, call.results)]
    /\ UNCHANGED pipeline_vars

SpecFilter == InitFilter /\ [][ApplyFilter]_vars

MaxLoopResults == 3     \* merged results handed to the enrichment loop

\* merged results: distinct datasets with the products document, a document
\* that is no YAML, and a document without a searchable dimension
LoopResults ==
    { ids \in SeqsUpTo(1..(NumDatasets + 1), MaxLoopResults) : IsInjective(ids) }

\* found value lists of the loop: none, and one or two distinct brand values
\* with a repeat and a value of another column
LoopFound == { <<>>, FoundList(1, 0), FoundList(2, 0), FoundList(2, 1) }

InitLoop ==
    /\ Called(NoParams)
    /\ \E ids \in LoopResults, all_found \in LoopFound :
         call = [fn |-> "enrichment_loop",
                 results |-> [i \in 1..Len(ids) |->
                                DatasetResult(PermissionedDataset(ids[i], TRUE))],
                 all_found |-> all_found, returned |-> FALSE, updated |-> <<>>]

\* the enrichment loop under some iteration order of the hash collections
ApplyLoop ==
    /\ call.fn = "enrichment_loop"
    /\ ~call.returned
    /\ \E u \in EnrichmentLoop(call.results, call.all_found) :
         call' = [call EXCEPT !.returned = TRUE, !.updated = u]
    /\ UNCHANGED pipeline_vars

SpecLoop == InitLoop /\ [][ApplyLoop]_vars

MaxBatchTexts == 3      \* texts handed to generate_embeddings_batch

BatchTexts == SeqsUpTo(PipelineTerms, MaxBatchTexts)

\* provider responses: k embeddings, the i-th named i
BatchResponses == { [i \in 1..k |-> i] : k \in 0..(MaxBatchTexts + 1) }

InitBatch ==
    /\ Called(NoParams)
    /\ \E texts \in BatchTexts, data \in BatchResponses :
         call = [fn |-> "generate_embeddings_batch", texts |-> texts, data |-> data,
                 returned |-> FALSE, result |-> <<>>]

\* generate_embeddings_batch with the provider answering call.data
ApplyBatch ==
    /\ call.fn = "generate_embeddings_batch"
    /\ ~call.returned
    /\ call' = [call EXCEPT !.returned = TRUE,
                            !.result = generate_embeddings_batch(call.texts, call.data)]
    /\ UNCHANGED pipeline_vars

SpecBatch == InitBatch /\ [][ApplyBatch]_vars

(* An invocation with several value search terms the term filter keeps      *)

\* two distinct terms the term filter keeps
KeptTerms == <<<<"r", "b">>, <<"b", "r">>>>

\* one specific query and the kept terms
SearchParams ==
    { [specific_queries |-> Some(<<1>>), exploratory_topics |-> None,
       value_search_terms |-> Some(KeptTerms)] }

InitSearch ==
    /\ \E p \in SearchParams : Called(p)
    /\ call = NoCall

SpecSearch == InitSearch /\ [][Next]_vars

(* One buffer_unordered(10) stream of execute polled on its own, over more *)
(* items than the buffer holds                                             *)

MaxStreamItems == 12    \* queries or topics of one stream

Stages == {"rerank", "filter"}

FanOutDataset == PermissionedDataset(1, TRUE)

\* the items of one stream: queries for a rerank stream (lines 582, 607),
\* reranked entries with one candidate each for a filter stream (637, 660)
FanOutItems(stage, n) ==
    IF stage = "rerank" THEN StreamOf([i \in 1..n |-> i]).queue
    ELSE [i \in 1..n |-> [idx |-> i, query |-> i, ok |-> TRUE,
                          ranked |-> <<[dataset |-> FanOutDataset]>>]]

\* one poll of the stream: futures are started while the buffer has room
FanOutFill(stage, stream) ==
    IF stage = "rerank"
    THEN FillRerank(stream, <<FanOutDataset>>, <<CatalogYml(1)>>)
    ELSE FillFilter(stream)

\* collect() polls the stream for the first time
InitFanOut ==
    /\ Called(NoParams)
    /\ \E group \in Groups, stage \in Stages, n \in (BufferCap - 1)..MaxStreamItems :
         call = [fn |-> "buffer_unordered", group |-> group, stage |-> stage,
                 stream |-> FanOutFill(stage, [queue |-> FanOutItems(stage, n),
                                               inflight |-> {}, out |-> <<>>]),
                 yielded |-> 0]

\* any future in flight completes; it is yielded and the next poll refills
\* the buffer. The yielded items are counted, their order is left out
FanOutYield ==
    /\ call.fn = "buffer_unordered"
    /\ \E f \in call.stream.inflight :
         call' = [call EXCEPT
                    !.stream = FanOutFill(call.stage, [@ EXCEPT !.inflight = @ \ {f}]),
                    !.yielded = @ + 1]
    /\ UNCHANGED pipeline_vars

SpecFanOut == InitFanOut /\ [][FanOutYield]_vars

(* An invocation in which one rerank or filter call never returns          *)

\* the calls that may be the one that never returns: the rerank call or the
\* filter call of a query or topic of the invocation
StalledCalls(p) ==
    { c \in [fn : {"stalled"}, group : Groups, stage : Stages, idx : 1..MaxInputs] :
        c.idx <= Len(UnwrapOrDefault(IF c.group = "specific" THEN p.specific_queries
                                     ELSE p.exploratory_topics)) }

InitStalled ==
    \E p \in ParamsSet :
       /\ Called(p)
       /\ call \in StalledCalls(p)

\* the future of a stream that awaits the call that never returns
AwaitsStalled(g, stage, f) ==
    /\ call.fn = "stalled"
    /\ call.group = g
    /\ call.stage = stage
    /\ call.idx = f.idx
    /\ f.st = "calling"

\* the step is not the return of the call that never returns
StalledCallPending ==
    \A g \in Groups :
       /\ \A f \in rr[g].inflight : AwaitsStalled(g, "rerank", f) => f \in rr'[g].inflight
       /\ \A f \in fl[g].inflight : AwaitsStalled(g, "filter", f) => f \in fl'[g].inflight

\* the returns of the calls that do return
OtherRerankOk == RerankOk /\ StalledCallPending
OtherRerankErr == RerankErr /\ StalledCallPending
OtherFilterOk == FilterOk /\ StalledCallPending
OtherFilterErr == FilterErr /\ StalledCallPending

NextStalled ==
    \/ FetchJoinError
    \/ FetchError
    \/ FetchDatasets
    \/ SyntaxTask
    \/ TermFilterStep
    \/ EmbeddingBatch
    \/ EmbeddingJoinError
    \/ SpawnValueSearches
    \/ ValueSearchReturn
    \/ JoinValueSearches
    \/ OtherRerankOk
    \/ OtherRerankErr
    \/ RerankPushError
    \/ CollectSpecificRerank
    \/ CollectExploratoryRerank
    \/ FilterSkip
    \/ OtherFilterOk
    \/ OtherFilterErr
    \/ CollectSpecificFilter
    \/ MergeAndEnrich
    \/ Respond

\* the runtime polls every task and every future that can make progress,
\* and every call but the stalled one returns
FairStalled ==
    /\ WF_vars(FetchDatasets)
    /\ WF_vars(SyntaxTask)
    /\ WF_vars(TermFilterStep)
    /\ WF_vars(EmbeddingBatch)
    /\ WF_vars(SpawnValueSearches)
    /\ WF_vars(ValueSearchReturn)
    /\ WF_vars(JoinValueSearches)
    /\ WF_vars(OtherRerankOk)
    /\ WF_vars(RerankPushError)
    /\ WF_vars(CollectSpecificRerank)
    /\ WF_vars(CollectExploratoryRerank)
    /\ WF_vars(FilterSkip)
    /\ WF_vars(OtherFilterOk)
    /\ WF_vars(CollectSpecificFilter)
    /\ WF_vars(MergeAndEnrich)
    /\ WF_vars(Respond)

SpecStalled == InitStalled /\ [][NextStalled]_vars /\ FairStalled

(* An invocation in which every call returns                               *)

\* the runtime polls every task and every future that can make progress,
\* and every call that was made returns, with success or with failure
FairReturns ==
    /\ WF_vars(FetchDatasets)
    /\ WF_vars(SyntaxTask)
    /\ WF_vars(TermFilterStep)
    /\ WF_vars(EmbeddingBatch)
    /\ WF_vars(SpawnValueSearches)
    /\ WF_vars(ValueSearchReturn)
    /\ WF_vars(JoinValueSearches)
    /\ WF_vars(RerankOk)
    /\ WF_vars(RerankPushError)
    /\ WF_vars(CollectSpecificRerank)
    /\ WF_vars(CollectExploratoryRerank)
    /\ WF_vars(FilterSkip)
    /\ WF_vars(FilterOk)
    /\ WF_vars(CollectSpecificFilter)
    /\ WF_vars(MergeAndEnrich)
    /\ WF_vars(Respond)

SpecReturns == Init /\ [][Next]_vars /\ FairReturns

(* Invocations in which every call returns, and streams of more items than *)
(* the buffer holds whose futures all complete                             *)

\* execute has not been called
Idle ==
    /\ pc = "idle"
    /\ params = NoParams
    /\ ret = "none"
    /\ output = NoOutput
    /\ agent_state = [data_source_id |-> Unset, data_source_syntax |-> Unset,
                      data_context |-> Unset, searched_data_catalog |-> Unset]
    /\ fetch_result = [tag |-> "pending"]
    /\ all_datasets = <<>>
    /\ syntax_task = "not_spawned"
    /\ value_search_terms = <<>>
    /\ valid_value_search_terms = <<>>
    /\ term_embeddings = {}
    /\ value_search_tasks = {}
    /\ all_found_values = <<>>
    /\ documents = <<>>
    /\ rerank_errors = <<>>
    /\ rr = [g \in Groups |-> EmptyStream]
    /\ fl = [g \in Groups |-> EmptyStream]
    /\ combined_results = <<>>
    /\ updated_results = <<>>
    /\ calls = NoCalls
    /\ merge_input = [id \in CatalogIds |-> 0]
    /\ embedding_result = [tag |-> "pending"]

\* collect() polls for the first time a stream of more items than the
\* buffer holds
InitLongStream ==
    /\ Idle
    /\ \E group \in Groups, stage \in Stages, n \in (BufferCap + 1)..MaxStreamItems :
         call = [fn |-> "buffer_unordered", group |-> group, stage |-> stage,
                 stream |-> FanOutFill(stage, [queue |-> FanOutItems(stage, n),
                                               inflight |-> {}, out |-> <<>>]),
                 yielded |-> 0]

NextTerminates ==
    \/ FetchJoinError
    \/ FetchError
    \/ FetchDatasets
    \/ SyntaxTask
    \/ TermFilterStep
    \/ EmbeddingBatch
    \/ EmbeddingJoinError
    \/ SpawnValueSearches
    \/ ValueSearchReturn
    \/ JoinValueSearches
    \/ RerankOk
    \/ RerankErr
    \/ RerankPushError
    \/ CollectSpecificRerank
    \/ CollectExploratoryRerank
    \/ FilterSkip
    \/ FilterOk
    \/ FilterErr
    \/ CollectSpecificFilter
    \/ MergeAndEnrich
    \/ Respond
    \/ FanOutYield

SpecTerminates ==
    /\ Init \/ InitLongStream
    /\ [][NextTerminates]_vars
    /\ FairReturns
    /\ WF_vars(FanOutYield)

(* Invocations in which the answer of every rerank call and of every LLM   *)
(* call is fixed beforehand, and only the order of completion is free      *)

\* two queries or topics, and no value search term
FixedParams ==
    { [specific_queries |-> Some(<<1, 2>>), exploratory_topics |-> None,
       value_search_terms |-> None],
      [specific_queries |-> Some(<<1>>), exploratory_topics |-> Some(<<2>>),
       value_search_terms |-> None],
      [specific_queries |-> None, exploratory_topics |-> Some(<<1, 2>>),
       value_search_terms |-> None] }

\* the rerank and filter calls of an invocation: group and position
CallsOf(p) ==
    { <<"specific", i>> : i \in 1..Len(UnwrapOrDefault(p.specific_queries)) }
    \cup { <<"exploratory", i>> : i \in 1..Len(UnwrapOrDefault(p.exploratory_topics)) }

\* what the rerank provider answers to a call: an error, or indices
FixedRerankAnswers == { "err", <<0>>, <<1, 0>> }

\* what the LLM answers to a call: an error, or identity strings
FixedFilterAnswers ==
    { "err", <<IdString(TRUE, 1)>>, <<IdString(TRUE, 2)>>,
      <<IdString(TRUE, 2), IdString(TRUE, 1)>> }

InitFixed ==
    \E p \in FixedParams :
       /\ Called(p)
       /\ \E rerank \in [CallsOf(p) -> FixedRerankAnswers],
             filter \in [CallsOf(p) -> FixedFilterAnswers] :
            call = [fn |-> "fixed", rerank |-> rerank, filter |-> filter]

\* the entry a step appended to the output of a stream
Yielded(before, after) ==
    IF Len(after.out) = Len(before.out) + 1 THEN {after.out[Len(after.out)]} ELSE {}

\* the futures of a stream that a step completed or moved on
Left(before, after) == before.inflight \ after.inflight

\* lines 589-591: the rerank call returns the Ok answer fixed for it
FixedRerankOk ==
    /\ RerankOk
    /\ \A g \in Groups : \A e \in Yielded(rr[g], rr'[g]) :
          /\ call.rerank[<<g, e.idx>>] # "err"
          /\ e.ranked = rerank_datasets(all_datasets, call.rerank[<<g, e.idx>>])

\* lines 592-595: the rerank call returns Err as fixed for it
FixedRerankErr ==
    /\ RerankErr
    /\ \A g \in Groups : \A f \in Left(rr[g], rr'[g]) :
          call.rerank[<<g, f.idx>>] = "err"

\* line 649: the LLM call returns the Ok answer fixed for it
FixedFilterOk ==
    /\ FilterOk
    /\ \A g \in Groups : \A e \in Yielded(fl[g], fl'[g]) :
          /\ call.filter[<<g, e.idx>>] # "err"
          /\ \A f \in Left(fl[g], fl'[g]) :
                e.res = llm_filter_helper(f.ranked, call.filter[<<g, e.idx>>])

\* lines 651-654: the LLM call returns Err as fixed for it
FixedFilterErr ==
    /\ FilterErr
    /\ \A g \in Groups : \A e \in Yielded(fl[g], fl'[g]) :
          call.filter[<<g, e.idx>>] = "err"

NextFixed ==
    \/ FetchJoinError
    \/ FetchError
    \/ FetchDatasets
    \/ SyntaxTask
    \/ TermFilterStep
    \/ SpawnValueSearches
    \/ JoinValueSearches
    \/ FixedRerankOk
    \/ FixedRerankErr
    \/ RerankPushError
    \/ CollectSpecificRerank
    \/ CollectExploratoryRerank
    \/ FilterSkip
    \/ FixedFilterOk
    \/ FixedFilterErr
    \/ CollectSpecificFilter
    \/ MergeAndEnrich
    \/ Respond

SpecFixed == InitFixed /\ [][NextFixed]_vars

----------------------------------------------------------------------------
(* Properties of one invocation                                            *)

Ids(datasets) == [i \in 1..Len(datasets) |-> datasets[i].id]

\* the first occurrence of every value of a sequence, in order
RECURSIVE FirstOccurrences(_)
FirstOccurrences(s) ==
    IF s = <<>> THEN <<>>
    ELSE LET front == SubSeq(s, 1, Len(s) - 1)
             last == s[Len(s)]
         IN  IF last \in Range(front) THEN FirstOccurrences(front)
             ELSE Append(FirstOccurrences(front), last)

\* the step that merges the collected filter outputs, and the returning step
MergeStep == pc = "filter_exploratory" /\ pc' = "await_syntax"
RespondStep == pc = "await_syntax" /\ pc' = "done"

\* C1: each dataset identity appears at most once in the returned results,
\* however many queries and topics selected it and however often one filter
\* output lists it.
C1_ResultsUnique ==
    /\ IsInjective(Ids(combined_results))
    /\ IsInjective(Ids(updated_results))
    /\ IsInjective(Ids(output.results))

\* a response with a dataset that occurred three times in the merged filter
\* outputs: it was selected for two queries or topics and listed twice by one
C1_Witness ==
    /\ ret = "ok"
    /\ \E id \in CatalogIds :
         /\ merge_input[id] >= 3
         /\ \E i \in 1..Len(output.results) : output.results[i].id = id

\* the entries of a collected filter stream put back in the order of the
\* input list they came from
ByInputOrder(out) ==
    [i \in 1..Len(out) |-> out[CHOOSE k \in 1..Len(out) : out[k].idx = i]]

ResultIds(out) == Ids(Flatten([i \in 1..Len(out) |-> out[i].res]))

\* C2: the results are ordered by first occurrence in the specific filter
\* outputs taken in input query order followed by the exploratory filter
\* outputs taken in input topic order, whatever order the calls complete in.
C2_InputOrder ==
    [][MergeStep =>
         Ids(combined_results') =
           FirstOccurrences(ResultIds(ByInputOrder(fl["specific"].out))
                            \o ResultIds(ByInputOrder(fl["exploratory"].out)))]_vars

\* C3: whatever fails, the invocation returns a response object and never
\* an error.
C3_NeverReturnsError == pc = "done" => ret = "ok"

\* the names of the queries or topics of a group
InputList(g) == IF g = "specific" THEN specific_queries ELSE exploratory_topics

\* the entries of a collected filter stream whose rerank succeeded
RECURSIVE RerankSucceeded(_)
RerankSucceeded(out) ==
    IF out = <<>> THEN <<>>
    ELSE IF Head(out).src = "rerank_failed" THEN RerankSucceeded(Tail(out))
         ELSE <<Head(out)>> \o RerankSucceeded(Tail(out))

\* C4: with the rerank failing for some queries and succeeding for others,
\* the results are exactly the merged filter outputs of the queries whose
\* rerank succeeded, and the message has exactly one warning per failed
\* rerank, naming the query that failed.
C4_PartialRerankFailure ==
    [][/\ MergeStep =>
            /\ Ids(combined_results') =
                 FirstOccurrences(ResultIds(RerankSucceeded(fl["specific"].out))
                                  \o ResultIds(RerankSucceeded(fl["exploratory"].out)))
            /\ \A g \in Groups : \A i \in 1..Len(InputList(g)) :
                 Cardinality({ k \in 1..Len(rerank_errors) :
                                 rerank_errors[k] = RerankErrorMessage(g, InputList(g)[i]) })
                 = Cardinality({ k \in 1..Len(fl[g].out) :
                                   /\ fl[g].out[k].idx = i
                                   /\ fl[g].out[k].src = "rerank_failed" })
            /\ Len(rerank_errors) =
                 Cardinality({ <<g, k>> \in Groups \X (1..MaxInputs) :
                                 /\ k <= Len(fl[g].out)
                                 /\ fl[g].out[k].src = "rerank_failed" })
       /\ RespondStep =>
            /\ Ids(output'.results) = Ids(combined_results)
            /\ output'.message.warnings = rerank_errors]_vars

\* two specific queries, the rerank failed for one and the other brought a
\* dataset into the results
C4_Witness ==
    /\ ret = "ok"
    /\ Len(specific_queries) >= 2
    /\ exploratory_topics = <<>>
    /\ Len(output.message.warnings) = 1
    /\ output.results # <<>>

\* C5: every error of the filter stage (call failure, missing content,
\* unparseable response) is recorded in the warnings list of the rerank
\* errors, whose lines are the warning lines of the final message.
C5_FilterErrorsAreWarnings ==
    \A g \in Groups : \A k \in 1..Len(fl[g].out) :
        fl[g].out[k].src \in LlmFailures =>
           \E e \in 1..Len(rerank_errors) :
              /\ rerank_errors[e].group = g
              /\ rerank_errors[e].query = InputList(g)[fl[g].out[k].idx]

\* the fetch failed, or delivered no dataset that carries a document
NoCandidateFetched ==
    \/ fetch_result.tag \in {"err", "panicked"}
    \/ /\ fetch_result.tag = "ok"
       /\ \A i \in 1..Len(fetch_result.datasets) :
            ~fetch_result.datasets[i].yml_content.some

\* C6: a fetch that fails or delivers no dataset with a document gives a
\* response with empty results, no data_source_id and an explanatory
\* message, and no embedding, value index, rerank or LLM call is made.
C6_EmptyCatalogResponse ==
    (pc = "done" /\ NoCandidateFetched) =>
        /\ ret = "ok"
        /\ output.results = <<>>
        /\ output.data_source_id = None
        /\ output.message.kind \in {"fetch_error", "no_datasets"}
        /\ calls = NoCalls

\* a rerank call is in flight
RerankCalling == \E g \in Groups : \E f \in rr[g].inflight : f.st = "calling"

\* C8: no dataset without a document is passed to the ranker, and in every
\* rerank call documents and candidates have equal length with document i
\* the document of candidate i.
C8_DocumentsAligned ==
    RerankCalling =>
        /\ Len(documents) = Len(all_datasets)
        /\ \A i \in 1..Len(all_datasets) :
             /\ all_datasets[i].yml_content.some
             /\ documents[i] = all_datasets[i].yml_content.v

\* a rerank call in flight after a fetch that delivered a dataset without a
\* document ahead of one with a document
C8_Witness ==
    /\ RerankCalling
    /\ fetch_result.tag = "ok"
    /\ Len(fetch_result.datasets) = 2
    /\ ~fetch_result.datasets[1].yml_content.some
    /\ fetch_result.datasets[2].yml_content.some

\* C13: with no specific query, no exploratory topic and no found value
\* (no term given, every term filtered out, or nothing found), the
\* invocation returns the "No search queries, exploratory topics, or found
\* values" response with empty results and makes no rerank or LLM call.
C13_ShortCircuit ==
    (/\ ret = "ok"
     /\ all_datasets # <<>>
     /\ specific_queries = <<>>
     /\ exploratory_topics = <<>>
     /\ all_found_values = <<>>) =>
        /\ output.message.kind = "no_queries"
        /\ output.results = <<>>
        /\ calls.rerank = 0
        /\ calls.llm = 0

\* C14: a response with a data_source_id is returned only after the session
\* state holds that id and the dialect lookup has completed and published
\* the dialect or null.
C14_SyntaxPublishedBeforeReturn ==
    (ret = "ok" /\ output.data_source_id.some) =>
        /\ agent_state.data_source_id = Val(output.data_source_id.v)
        /\ syntax_task = "finished"
        /\ agent_state.data_source_syntax # Unset

\* C15: every returned response comes with both flags published:
\* searched_data_catalog true, data_context true exactly when the results
\* are not empty.
C15_FlagsPublished ==
    ret = "ok" =>
        /\ agent_state.searched_data_catalog = Val(TRUE)
        /\ agent_state.data_context = Val(output.results # <<>>)

\* the positions of the queries or topics that have entered a filter stream
FilterItems(stream) ==
    { stream.queue[k].idx : k \in 1..Len(stream.queue) }
    \cup { f.idx : f \in stream.inflight }
    \cup { stream.out[k].idx : k \in 1..Len(stream.out) }

\* the candidates a query or topic entered a filter stream with
FilterCandidates(stream, i) ==
    { stream.queue[k].ranked : k \in { k \in 1..Len(stream.queue) : stream.queue[k].idx = i } }
    \cup { f.ranked : f \in { f \in stream.inflight : f.idx = i } }

\* C16: the filter call of a query or topic starts only after the rerank
\* call of that same query or topic has completed: a query or topic enters
\* its filter stream with the collected output of its own rerank, and a
\* filter call is started only for one that has entered.
C16_FilterAfterRerank ==
    [][\A g \in Groups :
         /\ \A i \in FilterItems(fl'[g]) \ FilterItems(fl[g]) :
              \E k \in 1..Len(rr[g].out) :
                 /\ rr[g].out[k].idx = i
                 /\ FilterCandidates(fl'[g], i) = {rr[g].out[k].ranked}
                 /\ \A f \in rr[g].inflight : f.idx # i
         /\ \A f \in fl'[g].inflight \ fl[g].inflight :
              f.idx \in FilterItems(fl[g]) \cup { rr[g].out[k].idx : k \in 1..Len(rr[g].out) }]_vars

\* two LLM filter calls of one group in flight together, after at least two
\* rerank calls
C16_Witness ==
    \E g \in Groups :
       /\ Cardinality({ f \in fl[g].inflight : f.st = "calling" }) >= 2
       /\ calls.rerank >= 2
       /\ calls.llm >= 2

\* the provider calls a stream has in flight
CallsInFlight(stream) == Cardinality({ f \in stream.inflight : f.st = "calling" })

\* C17: at every moment at most 10 rerank calls and at most 10 filter calls
\* of the specific group, and as many of the exploratory group, are in
\* flight, for any number of queries and topics
C17_FanOutCapped ==
    /\ \A g \in Groups : CallsInFlight(rr[g]) <= BufferCap /\ CallsInFlight(fl[g]) <= BufferCap
    /\ call.fn = "buffer_unordered" => CallsInFlight(call.stream) <= BufferCap

\* the buffer is full again after items were yielded, with items waiting
C17_Witness ==
    /\ call.fn = "buffer_unordered"
    /\ call.yielded >= 1
    /\ CallsInFlight(call.stream) = BufferCap
    /\ call.stream.queue # <<>>

\* the positions of the queries or topics of a group whose rerank call has
\* failed and whose branch has completed
FailedReranks(g) ==
    { rr[g].out[k].idx : k \in { k \in 1..Len(rr[g].out) : ~rr[g].out[k].ok } }
    \cup { fl[g].queue[k].idx : k \in { k \in 1..Len(fl[g].queue) : ~fl[g].queue[k].ok } }
    \cup { f.idx : f \in { f \in fl[g].inflight : ~f.ok } }
    \cup { fl[g].out[k].idx :
             k \in { k \in 1..Len(fl[g].out) : fl[g].out[k].src = "rerank_failed" } }

\* rerank_errors holds one entry for each failed rerank call and no other
OneEntryPerFailure ==
    /\ \A g \in Groups : \A i \in 1..Len(InputList(g)) :
         Cardinality({ k \in 1..Len(rerank_errors) :
                         rerank_errors[k] = RerankErrorMessage(g, InputList(g)[i]) })
         = IF i \in FailedReranks(g) THEN 1 ELSE 0
    /\ Len(rerank_errors) =
         Cardinality(FailedReranks("specific")) + Cardinality(FailedReranks("exploratory"))

\* C18: under every interleaving of the rerank branches no append to the
\* shared warnings list is lost or duplicated: at most one branch holds the
\* lock at a time, while the streams are collected the list holds exactly
\* one entry per failed rerank call, specific and exploratory, and that is
\* the list the message is assembled from.
C18_WarningsAppendedOnce ==
    [][/\ Cardinality(LockHolders') <= 1
       /\ (InRerank' \/ InFilter') => OneEntryPerFailure'
       /\ MergeStep => rerank_errors' = rerank_errors
       /\ RespondStep => output'.message.warnings = rerank_errors]_vars

\* a response with two warnings: the rerank calls of two specific queries,
\* in flight together, both failed
C18_Witness ==
    /\ ret = "ok"
    /\ Len(specific_queries) = 2
    /\ Len(output.message.warnings) = 2

\* how a filter branch ended that made no LLM call
Skipped == {"rerank_failed", "nothing_ranked"}

\* the entries of a collected filter stream that come from an LLM call
RECURSIVE LlmAnswered(_)
LlmAnswered(out) ==
    IF out = <<>> THEN <<>>
    ELSE IF Head(out).src \in Skipped THEN LlmAnswered(Tail(out))
         ELSE <<Head(out)>> \o LlmAnswered(Tail(out))

\* the LLM calls of the filter streams, in flight and completed
LlmCalls(g) ==
    CallsInFlight(fl[g])
    + Cardinality({ k \in 1..Len(fl[g].out) : fl[g].out[k].src \notin Skipped })

\* a query or topic whose rerank failed has no ranked candidate; one with
\* no ranked candidate has no LLM call and an empty filter output
NothingRankedIsSkipped ==
    /\ \A g \in Groups :
         /\ \A k \in 1..Len(rr[g].out) : ~rr[g].out[k].ok => rr[g].out[k].ranked = <<>>
         /\ \A k \in 1..Len(fl[g].queue) : ~fl[g].queue[k].ok => fl[g].queue[k].ranked = <<>>
         /\ \A f \in fl[g].inflight :
              /\ ~f.ok => f.ranked = <<>>
              /\ f.ranked = <<>> => f.st = "skip"
         /\ \A k \in 1..Len(fl[g].out) :
              fl[g].out[k].src \in Skipped => fl[g].out[k].res = <<>>
    /\ InFilter => calls.llm = LlmCalls("specific") + LlmCalls("exploratory")

\* C20: a query or topic whose rerank call failed, or returned no in-range
\* candidate, is treated as having zero ranked candidates: no LLM call is
\* made for it and it contributes nothing to the results.
C20_NothingRankedSkipsFilter ==
    [][/\ NothingRankedIsSkipped'
       /\ \A g \in Groups :
            (Len(fl'[g].out) = Len(fl[g].out) + 1) =>
               \A f \in fl[g].inflight \ fl'[g].inflight :
                  f.ranked = <<>> =>
                     /\ fl'[g].out[Len(fl'[g].out)].src \in Skipped
                     /\ calls'.llm >= calls.llm
                     /\ CallsInFlight(fl'[g]) - CallsInFlight(fl[g]) = calls'.llm - calls.llm
       /\ MergeStep =>
            Ids(combined_results') =
              FirstOccurrences(ResultIds(LlmAnswered(fl["specific"].out))
                               \o ResultIds(LlmAnswered(fl["exploratory"].out)))]_vars

\* a collected filter stream with a query whose rerank call failed and one
\* whose rerank call returned no in-range candidate, and no LLM call made
C20_Witness ==
    \E g \in Groups :
       /\ \E k \in 1..Len(fl[g].out) : fl[g].out[k].src = "rerank_failed"
       /\ \E k \in 1..Len(fl[g].out) : fl[g].out[k].src = "nothing_ranked"
       /\ calls.rerank = 2
       /\ calls.llm = 0

\* the filter branch of query or topic i of group g has completed, after
\* its rerank branch: its entry is in the collected filter stream, or the
\* streams have been merged
BranchCompleted(g, i) ==
    \/ \E k \in 1..Len(fl[g].out) : fl[g].out[k].idx = i
    \/ pc = "await_syntax"
    \/ pc = "done" /\ output.message.kind \in {"none_found", "found"}

\* C19: a rerank or filter call that never returns stalls only its own
\* query or topic: with the candidates fetched, every other query or topic
\* whose own calls return has its rerank call and its filter call started
\* and completed.
C19_StallIsLocal ==
    \A g \in Groups : \A i \in 1..MaxInputs :
       (/\ call.fn = "stalled"
        /\ i <= Len(InputList(g))
        /\ ~(call.group = g /\ call.idx = i)
        /\ pc \in {"rerank_specific", "rerank_exploratory"})
       ~> BranchCompleted(g, i)

\* the entries of a collected filter stream but those of a failed LLM call
RECURSIVE FilterSucceeded(_)
FilterSucceeded(out) ==
    IF out = <<>> THEN <<>>
    ELSE IF Head(out).src \in LlmFailures THEN FilterSucceeded(Tail(out))
         ELSE <<Head(out)>> \o FilterSucceeded(Tail(out))

\* a filter call of the invocation has failed
FilterFailed ==
    \E g \in Groups : \E k \in 1..Len(fl[g].out) : fl[g].out[k].src \in LlmFailures

\* an LLM call of the filter is in flight: it may fail
FilterCalling == \E g \in Groups : \E f \in fl[g].inflight : f.st = "calling"

\* the step in which a filter branch yields after its LLM call failed
FilterFailureStep(g) ==
    /\ Len(fl'[g].out) = Len(fl[g].out) + 1
    /\ fl'[g].out[Len(fl'[g].out)].src \in LlmFailures

\* C21: a failed filter call (provider error, missing content, unparseable
\* response) yields an empty filter result for its query or topic only: the
\* entries and calls of the others are untouched, the merged results are
\* those of the others alone, and the invocation still returns, whichever
\* of its filter calls fail.
C21_FilterFailureIsLocal ==
    /\ [][/\ \A g \in Groups :
              FilterFailureStep(g) =>
                 /\ fl'[g].out[Len(fl'[g].out)].res = <<>>
                 /\ SubSeq(fl'[g].out, 1, Len(fl[g].out)) = fl[g].out
                 /\ \A f \in fl[g].inflight :
                      f.idx # fl'[g].out[Len(fl'[g].out)].idx => f \in fl'[g].inflight
                 /\ \A h \in Groups \ {g} : fl'[h] = fl[h]
                 /\ ret' = "none"
         /\ MergeStep =>
              Ids(combined_results') =
                FirstOccurrences(ResultIds(FilterSucceeded(fl["specific"].out))
                                 \o ResultIds(FilterSucceeded(fl["exploratory"].out)))]_vars
    /\ (FilterCalling \/ FilterFailed) ~> ret = "ok"

\* a collected filter stream with a query whose LLM call failed and one
\* whose LLM call selected a dataset
C21_Witness ==
    \E g \in Groups :
       /\ \E k \in 1..Len(fl[g].out) : fl[g].out[k].src \in LlmFailures
       /\ \E k \in 1..Len(fl[g].out) :
            fl[g].out[k].src = "filtered" /\ fl[g].out[k].res # <<>>

\* the provider call of the embedding batch failed
EmbeddingFailed == embedding_result.tag = "err"

\* C26: a failure of the batched embedding call degrades to an empty
\* term-to-vector mapping: no value-index call is made, the found-value
\* list is empty, and the invocation goes on to rank and filter the
\* submitted queries and topics and returns a response.
C26_EmbeddingFailureDegrades ==
    /\ [](EmbeddingFailed =>
            /\ term_embeddings = {}
            /\ value_search_tasks = {}
            /\ calls.index = 0
            /\ all_found_values = <<>>
            /\ ret # "err"
            /\ ret = "ok" =>
                 /\ output.message.kind \in {"none_found", "found"}
                 /\ calls.rerank = Len(specific_queries) + Len(exploratory_topics))
    /\ EmbeddingFailed ~> ret = "ok"

\* a response with a dataset after the embedding batch failed
C26_Witness ==
    /\ EmbeddingFailed
    /\ ret = "ok"
    /\ output.results # <<>>
    /\ calls.llm >= 1

\* the step that joins the value searches
JoinStep == pc = "value_join" /\ pc' # "value_join"

\* how often a found value occurs in a list
CountIn(list, v) == Cardinality({ i \in 1..Len(list) : list[i] = v })

\* how often a found value occurs in the results of the searches that
\* succeeded
RECURSIVE CountInSucceeded(_, _)
CountInSucceeded(tasks, v) ==
    IF tasks = {} THEN 0
    ELSE LET t == CHOOSE t \in tasks : TRUE
         IN  (IF t.st = "ok" THEN CountIn(t.values, v) ELSE 0)
             + CountInSucceeded(tasks \ {t}, v)

\* C28: a value search that fails for one term gives that term an empty
\* list in the term-to-values mapping and neither aborts nor alters the
\* searches of the other terms: the flattened found-value list holds the
\* results of the searches that succeeded, each as often as it was found,
\* and nothing else.
C28_SearchFailureIsLocal ==
    [][/\ \A t \in value_search_tasks' \ value_search_tasks :
            t.st = "err" =>
               /\ t.values = <<>>
               /\ t \in found_values_by_term(value_search_tasks')
               /\ \A o \in value_search_tasks : o.term # t.term => o \in value_search_tasks'
               /\ pc' = pc
               /\ ret' = "none"
       /\ JoinStep =>
            /\ ret' # "err"
            /\ \A v \in IndexValues :
                 CountIn(all_found_values', v) = CountInSucceeded(value_search_tasks, v)
            /\ \A i \in 1..Len(all_found_values') : all_found_values'[i] \in IndexValues]_vars

\* the searches of two terms were joined, one failed and the other
\* succeeded, and the values it found are the found values
C28_Witness ==
    /\ pc \notin {"value_search", "value_join"}
    /\ \E t \in value_search_tasks : t.st = "err"
    /\ \E t \in value_search_tasks : t.st = "ok" /\ t.values # <<>>
    /\ all_found_values # <<>>

\* the filter futures a step started on a query or topic with a ranked
\* candidate
StartedOnRanked ==
    UNION { { f \in fl'[g].inflight \ fl[g].inflight : f.ranked # <<>> } : g \in Groups }

\* a step calls the embedding provider only with a kept term, the value
\* index only with a term -> vector mapping that has an entry, the rerank
\* provider only with a document and a dataset, and the LLM only for the
\* queries and topics with a ranked candidate
NoCallOnEmptyList ==
    /\ calls'.embed > calls.embed => valid_value_search_terms' # <<>>
    /\ calls'.index > calls.index => term_embeddings # {}
    /\ calls'.rerank > calls.rerank => documents' # <<>> /\ all_datasets' # <<>>
    /\ calls'.llm - calls.llm <= Cardinality(StartedOnRanked)

\* a step calls the value index at most once per non-empty vector of the
\* mapping
NoIndexCallOnEmptyVector ==
    calls'.index - calls.index
        <= Cardinality({ e \in term_embeddings : e.embedding # "empty" })

\* C29: no external call is made for empty input: the embedding provider
\* is not called with an empty sanitized term list, the value index is not
\* called with an empty term -> vector mapping or with an empty vector, the
\* rerank provider is not called with an empty candidate or document list,
\* the LLM is not called with an empty ranked list.
C29_NoCallOnEmptyInput == [][NoCallOnEmptyList /\ NoIndexCallOnEmptyVector]_vars

\* the part of C29 on empty lists and mappings alone
EmptyListsMakeNoCall == [][NoCallOnEmptyList]_vars

\* a task execute spawned did not join
TaskPanicked == fetch_result.tag = "panicked" \/ embedding_result.tag = "panicked"

\* C30: if every external call eventually returns, with success or with
\* failure, every invocation eventually returns a response, for any number
\* of queries, topics and terms, more than 10 per group included: an
\* invocation returns, with Ok unless a spawned task did not join, and a
\* stream of more than 10 items yields every item.
C30_EveryInvocationReturns ==
    /\ (pc = "start") ~> (ret # "none")
    /\ [](ret = "err" => TaskPanicked)
    /\ (call.fn = "buffer_unordered")
          ~> (/\ call.fn = "buffer_unordered"
              /\ StreamDone(call.stream)
              /\ call.yielded > BufferCap)

\* a stream of MaxStreamItems items has yielded them all
C30_Witness ==
    /\ call.fn = "buffer_unordered"
    /\ StreamDone(call.stream)
    /\ call.yielded = MaxStreamItems

\* an invocation has returned Ok after calls of every kind
ReturnedAfterEveryCall ==
    /\ ret = "ok"
    /\ calls.embed > 0 /\ calls.index > 0 /\ calls.rerank > 0 /\ calls.llm > 0

\* C31: the data source identity used for the dialect lookup, for every
\* value index search, for the published session state and for the
\* response's data_source_id is the one of the first fetched candidate
\* dataset, also when the fetched datasets belong to several data sources.
C31_FirstDatasetSource ==
    all_datasets # <<>> =>
        /\ agent_state.data_source_id = Val(all_datasets[1].data_source_id)
        /\ agent_state.data_source_syntax.tag = "val" =>
              agent_state.data_source_syntax.v.dialect_of = all_datasets[1].data_source_id
        /\ \A t \in value_search_tasks :
              t.data_source_id = all_datasets[1].data_source_id
        /\ ret = "ok" => output.data_source_id = Some(all_datasets[1].data_source_id)

\* a response after a value search and a dialect lookup, over datasets of
\* two data sources
C31_Witness ==
    /\ ret = "ok"
    /\ Len(all_datasets) = 2
    /\ all_datasets[1].data_source_id # all_datasets[2].data_source_id
    /\ value_search_tasks # {}
    /\ agent_state.data_source_syntax.tag = "val"
    /\ output.results # <<>>

\* the streams with a provider call in flight
StreamsCalling ==
    { <<stage, g>> \in {"rerank", "filter"} \X Groups :
        CallsInFlight(IF stage = "rerank" THEN rr[g] ELSE fl[g]) > 0 }

\* the futures a step started in a stream
FuturesStarted(before, after) == after.inflight \ before.inflight

\* every query and every topic has been reranked and no rerank call is
\* in flight
AllReranked ==
    /\ \A g \in Groups : StreamDone(rr[g])
    /\ Len(rr["specific"].out) = Len(specific_queries)
    /\ Len(rr["exploratory"].out) = Len(exploratory_topics)

\* a step that starts the rerank of a topic finds every query reranked; a
\* step that starts a filter future finds every query and topic reranked
\* or the rerank streams already moved into the filter streams
StartsBehindBarrier ==
    /\ FuturesStarted(rr["exploratory"], rr'["exploratory"]) # {} =>
          /\ StreamDone(rr["specific"])
          /\ Len(rr["specific"].out) = Len(specific_queries)
    /\ \A g \in Groups :
          FuturesStarted(fl[g], fl'[g]) # {} =>
             /\ \A h \in Groups : CallsInFlight(rr[h]) = 0 /\ rr[h].queue = <<>>
             /\ AllReranked \/ InFilter

RankedIds(ranked_datasets) ==
    { ranked_datasets[i].dataset.id : i \in 1..Len(ranked_datasets) }

\* the identity strings of a response that parse to a ranked identity
RECURSIVE Confirmed(_, _)
Confirmed(results, ids) ==
    IF results = <<>> THEN <<>>
    ELSE IF Head(results).parses /\ Head(results).id \in ids
         THEN <<Head(results)>> \o Confirmed(Tail(results), ids)
         ELSE Confirmed(Tail(results), ids)

\* a rerank yields fetched datasets only
RerankYieldsFetched ==
    \A g \in Groups : \A e \in Yielded(rr[g], rr'[g]) :
       \A i \in 1..Len(e.ranked) :
          \E j \in 1..Len(all_datasets) : e.ranked[i].dataset = all_datasets[j]

\* a filter yields datasets only from an answer of the LLM, and then only
\* datasets the rerank of the same query or topic returned and an answer
\* names
FilterYieldsRankedAndNamed ==
    \A g \in Groups : \A e \in Yielded(fl[g], fl'[g]) :
       \A f \in { f \in fl[g].inflight : f.idx = e.idx } :
          /\ e.src # "filtered" => e.res = <<>>
          /\ \A k \in 1..Len(e.res) : e.res[k].id \in RankedIds(f.ranked)
          /\ \E results \in LlmLists :
                Ids(e.res) = Ids(Confirmed(results, RankedIds(f.ranked)))

\* the merge takes datasets only from the filter outputs
MergeTakesFiltered ==
    MergeStep =>
       \A i \in 1..Len(combined_results') :
          \E g \in Groups : \E k \in 1..Len(fl[g].out) :
             /\ fl[g].out[k].src = "filtered"
             /\ \E j \in 1..Len(fl[g].out[k].res) :
                   fl[g].out[k].res[j].id = combined_results'[i].id

\* a returned dataset is a fetched dataset with a document, and was merged
ReturnedWereMerged ==
    ret = "ok" =>
       \A i \in 1..Len(output.results) :
          /\ output.results[i].yml_content.some
          /\ \E j \in 1..Len(fetch_result.datasets) :
                /\ fetch_result.datasets[j].id = output.results[i].id
                /\ fetch_result.datasets[j].yml_content.some
          /\ \E j \in 1..Len(combined_results) :
                combined_results[j].id = output.results[i].id

\* C33: every dataset of the returned results is one of the fetched
\* permissioned datasets, has a present document, and for at least one
\* submitted query or topic was both returned by the rerank call of that
\* query or topic and named in its LLM filter response.
C33_ResultsRankedAndNamed ==
    /\ [][RerankYieldsFetched /\ FilterYieldsRankedAndNamed /\ MergeTakesFiltered]_vars
    /\ []ReturnedWereMerged

\* a response with results, after an LLM call, that leaves a fetched
\* dataset out
C33_Witness ==
    /\ ret = "ok"
    /\ output.results # <<>>
    /\ Len(output.results) < Len(all_datasets)
    /\ calls.llm > 0

\* the identities the rerank answer fixed for a call selects
FixedRanked(c) ==
    IF call.rerank[c] = "err" THEN {}
    ELSE { all_datasets[k + 1].id :
             k \in { call.rerank[c][j] : j \in 1..Len(call.rerank[c]) }
                     \cap 0..(Len(all_datasets) - 1) }

\* the identities the answers fixed for a call let through
FixedKept(c) ==
    IF FixedRanked(c) = {} \/ call.filter[c] = "err" THEN {}
    ELSE { call.filter[c][j].id :
             j \in { j \in 1..Len(call.filter[c]) :
                       /\ call.filter[c][j].parses
                       /\ call.filter[c][j].id \in FixedRanked(c) } }

\* the query or topic of a call
QueryOf(c) ==
    IF c[1] = "specific" THEN specific_queries[c[2]] ELSE exploratory_topics[c[2]]

\* the invocation went through the merge and returned
ReturnedFromMerge == ret = "ok" /\ output.message.kind \in {"none_found", "found"}

\* C34: for fixed inputs and fixed answers of the collaborators, the set of
\* dataset identities of the returned results and the set of warning lines
\* are the same under every interleaving and completion order of the
\* rerank and filter calls: they are the sets the fixed answers determine.
C34_OrderIndependent ==
    (call.fn = "fixed" /\ ReturnedFromMerge) =>
        /\ { output.results[i].id : i \in 1..Len(output.results) }
             = UNION { FixedKept(c) : c \in CallsOf(params) }
        /\ { output.message.warnings[i] : i \in 1..Len(output.message.warnings) }
             = { RerankErrorMessage(c[1], QueryOf(c)) :
                   c \in { c \in CallsOf(params) : call.rerank[c] = "err" } }

\* the first query keeps dataset 1 only, the second dataset 2 only, and
\* the results come in the order in which the filter calls completed:
\* dataset 2 before dataset 1
C34_Witness ==
    /\ call.fn = "fixed"
    /\ ReturnedFromMerge
    /\ params.specific_queries = Some(<<1, 2>>)
    /\ call.filter[<<"specific", 1>>] = <<IdString(TRUE, 1)>>
    /\ call.filter[<<"specific", 2>>] = <<IdString(TRUE, 2)>>
    /\ Ids(output.results) = <<2, 1>>

\* the same answers, the filter calls completed in the other order
ResultsInInputOrder ==
    /\ call.fn = "fixed"
    /\ ReturnedFromMerge
    /\ params.specific_queries = Some(<<1, 2>>)
    /\ call.filter[<<"specific", 1>>] = <<IdString(TRUE, 1)>>
    /\ call.filter[<<"specific", 2>>] = <<IdString(TRUE, 2)>>
    /\ Ids(output.results) = <<1, 2>>

\* the invocation has no specific query and no exploratory topic
NoQueryNoTopic ==
    /\ UnwrapOrDefault(params.specific_queries) = <<>>
    /\ UnwrapOrDefault(params.exploratory_topics) = <<>>

\* C35: value search terms alone never produce results: with no specific
\* query and no exploratory topic the returned results are empty, whatever
\* value terms are given and whatever values the index returns, and no
\* rerank call and no LLM call is made.
C35_TermsAloneGiveNothing ==
    NoQueryNoTopic =>
        /\ calls.rerank = 0
        /\ calls.llm = 0
        /\ \A g \in Groups : rr[g].inflight = {} /\ fl[g].inflight = {}
        /\ combined_results = <<>>
        /\ updated_results = <<>>
        /\ ret = "ok" => output.results = <<>>

\* a response to value terms alone, the index having returned values
C35_Witness ==
    /\ NoQueryNoTopic
    /\ ret = "ok"
    /\ all_found_values # <<>>
    /\ calls.index > 0
    /\ output.message.kind = "none_found"

\* the return paths of execute that return Ok
ReturnPaths == {"fetch_error", "no_datasets", "no_queries", "no_content",
                "none_found", "found"}

\* C37: on every return path of an invocation (fetch failure, empty
\* catalog, short-circuit, no document content, full pipeline) the
\* response's specific_queries and exploratory_topics are the input
\* parameters unchanged, an absent list staying absent.
C37_ParamsEchoed ==
    /\ [][params' = params]_vars
    /\ [](ret = "ok" =>
            /\ output.message.kind \in ReturnPaths
            /\ output.specific_queries = params.specific_queries
            /\ output.exploratory_topics = params.exploratory_topics)

\* the full pipeline returned results to topics alone: the response
\* carries the topics given and no queries, as none were given
C37_Witness ==
    /\ ret = "ok"
    /\ output.message.kind = "found"
    /\ ~params.specific_queries.some
    /\ params.exploratory_topics.some
    /\ ~output.specific_queries.some
    /\ output.exploratory_topics = params.exploratory_topics

\* responses of the other return paths with an absent list; the return for
\* a catalog without document content (lines 562-572) is never taken, as
\* get_datasets keeps only datasets with a document
ReturnedFetchError == ret = "ok" /\ output.message.kind = "fetch_error" /\ ~params.specific_queries.some
ReturnedNoDatasets == ret = "ok" /\ output.message.kind = "no_datasets" /\ ~params.specific_queries.some
ReturnedNoQueries == ret = "ok" /\ output.message.kind = "no_queries" /\ ~params.specific_queries.some
ReturnedNoContent == ret = "ok" /\ output.message.kind = "no_content"

----------------------------------------------------------------------------
(* Properties of the functions applied on their own                        *)

\* the terms a predicate keeps, in their order
RECURSIVE Retained(_, _)
Retained(terms, kept) ==
    IF terms = <<>> THEN <<>>
    ELSE IF kept[Head(terms)] THEN <<Head(terms)>> \o Retained(Tail(terms), kept)
         ELSE Retained(Tail(terms), kept)

\* C7: a term is retained if and only if it has at least 2 characters and,
\* lower-cased, contains no phrase of the time-period lexicon; retained
\* terms keep their input order.
C7_TermSanitizer ==
    (call.fn = "term_filter" /\ call.returned) =>
        call.result =
          Retained(call.terms,
                   [t \in Range(call.terms) |->
                      /\ CharLen(t) >= 2
                      /\ \A phrase \in time_terms : ~contains(to_lowercase(t), phrase)])

\* the provider indices that are in range for a candidate list
RECURSIVE InRange(_, _)
InRange(rerank_results, n) ==
    IF rerank_results = <<>> THEN <<>>
    ELSE IF Head(rerank_results) < n
         THEN <<Head(rerank_results)>> \o InRange(Tail(rerank_results), n)
         ELSE InRange(Tail(rerank_results), n)

\* C9: the ranker's output is exactly the candidates at the in-range indices
\* of the provider's response, in the provider's order; an out-of-range
\* index is dropped and changes no in-range entry.
C9_RerankIndexMapping ==
    (call.fn = "rerank_datasets" /\ call.returned) =>
        LET kept == InRange(call.rerank_results, Len(call.datasets))
        IN  /\ Len(call.result) = Len(kept)
            /\ \A i \in 1..Len(kept) :
                 call.result[i].dataset = call.datasets[kept[i] + 1]

\* a response with an out-of-range index ahead of an in-range one
C9_Witness ==
    /\ call.fn = "rerank_datasets"
    /\ call.returned
    /\ Len(call.rerank_results) >= 2
    /\ call.rerank_results[1] >= Len(call.datasets)
    /\ call.rerank_results[2] < Len(call.datasets)
    /\ call.result # <<>>

\* C10: every relevant_values list the enricher writes has at most 20
\* entries and no value twice, also for found values that repeat a value at
\* the same coordinate.
C10_InjectedValuesBounded ==
    (call.fn = "inject_prefound_values_into_yml" /\ call.returned /\ call.result.ok) =>
        \A md \in DimIndex(call.result.yml) :
            LET written == call.result.yml.models[md[1]].dimensions[md[2]].relevant_values
            IN  written.present =>
                  /\ Len(written.vals) <= 20
                  /\ IsInjective(written.vals)

\* 20 values written for a column with more than 20 distinct found values,
\* one of them found more than once
C10_Witness ==
    /\ call.fn = "inject_prefound_values_into_yml"
    /\ call.returned
    /\ call.result.ok
    /\ Cardinality({ call.all_found[i].value : i \in 1..Len(call.all_found) }) > 20
    /\ ~IsInjective(call.all_found)
    /\ \E md \in DimIndex(call.result.yml) :
         Len(call.result.yml.models[md[1]].dimensions[md[2]].relevant_values.vals) = 20

\* C22: the filter's output holds only datasets of the ranked candidate
\* set: an identity string that does not parse, or parses to an identity
\* that was not ranked, is dropped, and the others appear in the order of
\* the LLM response with the name and document of the ranked candidate.
C22_FilterKeepsRankedOnly ==
    (call.fn = "llm_filter_helper" /\ call.returned) =>
        LET kept == Confirmed(call.results, RankedIds(call.ranked_datasets))
        IN  /\ Len(call.result) = Len(kept)
            /\ \A i \in 1..Len(kept) :
                 /\ call.result[i].id = kept[i].id
                 /\ \E r \in 1..Len(call.ranked_datasets) :
                      /\ call.ranked_datasets[r].dataset.id = kept[i].id
                      /\ call.result[i].name = Some(call.ranked_datasets[r].dataset.name)
                      /\ call.result[i].yml_content
                           = call.ranked_datasets[r].dataset.yml_content

\* a response that names an identity that was not ranked and then a ranked
\* one, which alone is in the output
C22_Witness ==
    /\ call.fn = "llm_filter_helper"
    /\ call.returned
    /\ Len(call.results) >= 2
    /\ call.results[1].parses
    /\ call.results[1].id \notin RankedIds(call.ranked_datasets)
    /\ call.results[2].id \in RankedIds(call.ranked_datasets)
    /\ Len(call.result) = 1

\* C27: when the provider returns k embeddings for n texts with k < n, the
\* batcher returns exactly the first k texts, the i-th paired with the i-th
\* embedding in submission order; the other n - k texts are absent.
C27_BatchPairsByPosition ==
    (/\ call.fn = "generate_embeddings_batch"
     /\ call.returned
     /\ Len(call.data) < Len(call.texts)) =>
        /\ Len(call.result) = Len(call.data)
        /\ \A i \in 1..Len(call.data) :
             /\ call.result[i].term = call.texts[i]
             /\ call.result[i].embedding = call.data[i]

\* two embeddings returned for three texts
C27_Witness ==
    /\ call.fn = "generate_embeddings_batch"
    /\ call.returned
    /\ Len(call.texts) = 3
    /\ Len(call.data) = 2
    /\ Len(call.result) = 2

----------------------------------------------------------------------------
(* Properties of the enricher run on a document and on its own output      *)

\* the relevant_values node of dimension md of a document
RelevantValues(yml, md) == yml.models[md[1]].dimensions[md[2]].relevant_values

\* C11: the enricher run again on the document it produced, with the same
\* found values, gives every dimension the same relevant_values content as
\* the first run, however many distinct values match.
C11_EnrichIdempotent ==
    (call.fn = "enrich" /\ call.runs = 2 /\ call.second.ok) =>
        \A md \in DimIndex(call.first.yml) :
            /\ RelevantValues(call.second.yml, md).present
                 = RelevantValues(call.first.yml, md).present
            /\ Len(RelevantValues(call.second.yml, md).vals)
                 = Len(RelevantValues(call.first.yml, md).vals)
            /\ Range(RelevantValues(call.second.yml, md).vals)
                 = Range(RelevantValues(call.first.yml, md).vals)

\* the distinct found values at the coordinates a model declares and the
\* name of one of its dimensions
MatchingValues(all_found, model, dim) ==
    { all_found[i].value :
        i \in { i \in 1..Len(all_found) :
                  /\ all_found[i].database_name = model.database
                  /\ all_found[i].schema_name = model.schema
                  /\ all_found[i].table_name = model.name
                  /\ all_found[i].column_name = dim.name } }

\* C12: a searchable dimension with at least one and at most 20 distinct
\* found values at its model's (database, schema, name) and its own name
\* carries exactly those distinct values as relevant_values in the output.
C12_MatchingValuesInjected ==
    (call.fn = "enrich" /\ call.runs >= 1 /\ call.first.ok) =>
        \A md \in DimIndex(call.yml_content) :
            LET model == call.yml_content.models[md[1]]
                dim == model.dimensions[md[2]]
                matching == MatchingValues(call.all_found, model, dim)
                written == RelevantValues(call.first.yml, md)
            IN  (dim.searchable /\ matching # {} /\ Cardinality(matching) <= 20) =>
                   /\ written.present
                   /\ IsInjective(written.vals)
                   /\ Range(written.vals) = matching

\* C23: every value the enricher injects into a dimension is the value of a
\* found value whose database, schema, table and column are the database,
\* schema and name the owning model declares and the name of the dimension,
\* also in a document in which two models share a name.
C23_InjectedValuesMatchCoordinates ==
    (call.fn = "enrich" /\ call.runs >= 1 /\ call.first.ok) =>
        \A md \in DimIndex(call.yml_content) :
            LET model == call.yml_content.models[md[1]]
                dim == model.dimensions[md[2]]
            IN  Range(RelevantValues(call.first.yml, md).vals)
                  \ Range(RelevantValues(call.yml_content, md).vals)
                \subseteq MatchingValues(call.all_found, model, dim)

\* a dimension node but for its relevant_values
DimFrame(dim) == [name |-> dim.name, searchable |-> dim.searchable]

\* between a document and its enriched form nothing differs but the
\* relevant_values of searchable dimensions that have a matching found value
OnlyRelevantValuesWritten(original, enriched, all_found) ==
    /\ Len(enriched.models) = Len(original.models)
    /\ \A m \in 1..Len(original.models) :
         /\ enriched.models[m].name = original.models[m].name
         /\ enriched.models[m].database = original.models[m].database
         /\ enriched.models[m].schema = original.models[m].schema
         /\ Len(enriched.models[m].dimensions) = Len(original.models[m].dimensions)
    /\ \A md \in DimIndex(original) :
         LET model == original.models[md[1]]
             dim == model.dimensions[md[2]]
         IN  /\ DimFrame(enriched.models[md[1]].dimensions[md[2]]) = DimFrame(dim)
             /\ RelevantValues(enriched, md) # RelevantValues(original, md) =>
                  /\ dim.searchable
                  /\ MatchingValues(all_found, model, dim) # {}

\* C25: enrichment changes nothing but document content: the results keep
\* their length, identities, names and order, and within a document the
\* only field written is relevant_values of dimensions that are marked
\* searchable and have a matching found value; a dimension that is not
\* marked searchable is never given injected values.
C25_EnrichmentFrame ==
    /\ (call.fn = "enrichment_loop" /\ call.returned) =>
          /\ Len(call.updated) = Len(call.results)
          /\ \A i \in 1..Len(call.results) :
               /\ call.updated[i].id = call.results[i].id
               /\ call.updated[i].name = call.results[i].name
               /\ call.updated[i].yml_content.some = call.results[i].yml_content.some
               /\ call.results[i].yml_content.some =>
                    OnlyRelevantValuesWritten(call.results[i].yml_content.v,
                                              call.updated[i].yml_content.v,
                                              call.all_found)
    /\ (call.fn = "enrich" /\ call.runs >= 1 /\ call.first.ok) =>
          OnlyRelevantValuesWritten(call.yml_content, call.first.yml, call.all_found)

\* a run of the enricher leaves the relevant_values of every searchable
\* dimension without a matching found value as they were
UnmatchedKept(original, enriched, all_found) ==
    \A md \in DimIndex(original) :
       LET model == original.models[md[1]]
           dim == model.dimensions[md[2]]
       IN  (dim.searchable /\ MatchingValues(all_found, model, dim) = {}) =>
              RelevantValues(enriched, md) = RelevantValues(original, md)

\* a run of the enricher takes no relevant_values away
NothingCleared(original, enriched) ==
    \A md \in DimIndex(original) :
       /\ RelevantValues(original, md).present => RelevantValues(enriched, md).present
       /\ RelevantValues(original, md).vals # <<>> => RelevantValues(enriched, md).vals # <<>>

\* no two models of the document share a name
DistinctModelNames(yml) ==
    \A m, n \in 1..Len(yml.models) : yml.models[m].name = yml.models[n].name => m = n

\* C36: the enricher never clears a value list: a searchable dimension for
\* which no found value matches keeps the relevant_values its input
\* document had, in the first run and in a run on an enriched document.
C36_UnmatchedValuesKept ==
    /\ (call.fn = "enrich" /\ call.runs >= 1 /\ call.first.ok) =>
          /\ UnmatchedKept(call.yml_content, call.first.yml, call.all_found)
          /\ NothingCleared(call.yml_content, call.first.yml)
    /\ (call.fn = "enrich" /\ call.runs = 2 /\ call.second.ok) =>
          /\ UnmatchedKept(call.first.yml, call.second.yml, call.all_found)
          /\ NothingCleared(call.first.yml, call.second.yml)

\* the same on the documents in which no two models share a name, and on
\* every document the part that no list is cleared
UnmatchedKeptOnDistinctNames ==
    /\ (call.fn = "enrich" /\ call.runs >= 1 /\ call.first.ok) =>
          /\ DistinctModelNames(call.yml_content) =>
                UnmatchedKept(call.yml_content, call.first.yml, call.all_found)
          /\ NothingCleared(call.yml_content, call.first.yml)
    /\ (call.fn = "enrich" /\ call.runs = 2 /\ call.second.ok) =>
          /\ DistinctModelNames(call.yml_content) =>
                UnmatchedKept(call.first.yml, call.second.yml, call.all_found)
          /\ NothingCleared(call.first.yml, call.second.yml)

\* an enriched document whose brand dimension has values and no matching
\* found value was enriched again and kept them
KeptEarlierValues ==
    /\ call.fn = "enrich" /\ call.runs >= 1 /\ call.first.ok
    /\ DistinctModelNames(call.yml_content)
    /\ \E md \in DimIndex(call.yml_content) :
          /\ call.yml_content.models[md[1]].dimensions[md[2]].searchable
          /\ RelevantValues(call.yml_content, md).vals # <<>>
          /\ MatchingValues(call.all_found, call.yml_content.models[md[1]],
                            call.yml_content.models[md[1]].dimensions[md[2]]) = {}
          /\ RelevantValues(call.first.yml, md) = RelevantValues(call.yml_content, md)

----------------------------------------------------------------------------
(* Properties of the enrichment loop applied on its own                    *)

\* the document of a result is left as it is: it does not parse, or has no
\* searchable dimension
LeftAsIs(result) ==
    \/ ~result.yml_content.some
    \/ ~result.yml_content.v.valid
    \/ extract_searchable_dimensions(result.yml_content.v) = {}

\* C24: a returned dataset whose document fails to parse during enrichment,
\* or has no searchable dimension, stays in the results with its original
\* document, and every other dataset is enriched as it is when it is the
\* only result: each searchable dimension with found values carries them.
C24_EnrichmentBestEffort ==
    (call.fn = "enrichment_loop" /\ call.returned) =>
        /\ Len(call.updated) = Len(call.results)
        /\ \A i \in 1..Len(call.results) :
             LET result == call.results[i]
                 updated == call.updated[i]
             IN  /\ updated.id = result.id
                 /\ updated.name = result.name
                 /\ LeftAsIs(result) => updated = result
                 /\ updated \in UpdatedOutcomes(result, call.all_found)
                 /\ ~LeftAsIs(result) =>
                      \A md \in DimIndex(result.yml_content.v) :
                         LET model == result.yml_content.v.models[md[1]]
                             dim == model.dimensions[md[2]]
                             matching == MatchingValues(call.all_found, model, dim)
                         IN  (dim.searchable /\ matching # {}) =>
                                Range(RelevantValues(updated.yml_content.v, md).vals)
                                  = matching

\* three results: the document of the first does not parse, the second has
\* no searchable dimension, the third was given found values
C24_Witness ==
    /\ call.fn = "enrichment_loop"
    /\ call.returned
    /\ Len(call.updated) = 3
    /\ ~call.results[1].yml_content.v.valid
    /\ call.results[2].yml_content.v.valid
    /\ extract_searchable_dimensions(call.results[2].yml_content.v) = {}
    /\ call.updated[3] # call.results[3]
    /\ \E md \in DimIndex(call.updated[3].yml_content.v) :
         RelevantValues(call.updated[3].yml_content.v, md).present

====
